---- MODULE Spec2Model ----
(***************************************************************************)
(* Model of universal_api: the format detector (internal/scraper), the     *)
(* OpenAPI/Swagger normalizer and the HTML heuristic extractor             *)
(* (pkg/parser), the document store (internal/storage), the JSON handler   *)
(* (cmd/api) and the rate limiter and handlers of the UI (internal/ui).    *)
(* Text the code applies string operations to is a sequence of             *)
(* one-character strings, so that strings.Contains, TrimSpace, Split,      *)
(* Fields and fmt.Sscanf are computed the way the Go library computes them.*)
(* A handler is a sequence of steps, one for each place where it waits or  *)
(* works on what the requests share (the clock, the limiter, the store),   *)
(* and the steps of the requests in progress interleave.                   *)
(***************************************************************************)
EXTENDS Integers, Sequences, FiniteSets, TLC

VARIABLES
    content,    \* bytes handed to the content sniffers isJSON / isYAML
    sniff,      \* what the sniffers answered for content (done = FALSE before the call)
    input,      \* the text handed to a parser
    parsed,     \* result of the last Parser.Parse call: [op, err, doc]
    clock,      \* time.Now().Unix(), in seconds
    issued,     \* identifiers of the documents the Parse calls returned so far
    scraped,    \* result of the last ScrapeAPIDoc call
    store,      \* MemoryStorage.docs: identifier |-> document
    reply,      \* the last answer of a submission handler
    flights,    \* the submissions in progress, one per worker of the server
    calls,      \* the Parse calls in progress, one per caller
    limiter,    \* GinHandler.limiter.requestsPerDomain: domain |-> times of the recorded requests
    twin,       \* Handler.limiter.requestsPerDomain, of the net/http handler
    allows,     \* the Allow calls in progress, one per caller
    verdicts,   \* what the Allow calls returned so far, in the order of their return
    got         \* the last answer of a read or write of the store, or a page of the UI

vars == <<content, sniff, input, parsed, clock, issued, scraped, store, reply, flights,
          calls, limiter, twin, allows, verdicts, got>>

sniffVars == <<content, sniff>>
parseVars == <<input, parsed>>
svcVars == <<store, reply, flights>>
uiVars == <<limiter, twin, allows, verdicts, got>>

-----------------------------------------------------------------------------
(* Bounds *)

MaxContentLen == 4      \* longest content drawn for the sniffers
MaxClock == 2           \* the clock stops advancing here
MaxCalls == 3           \* Parse calls whose identifiers are recorded
MaxElems == 3           \* elements under <body> of a drawn HTML page
MaxWait == 6            \* the clock of the rate limiter stops advancing here
MaxVerdicts == 3        \* Allow calls that return before the callers stop
MaxStored == 6          \* documents in the store when the index page is rendered

-----------------------------------------------------------------------------
(* Go's strings package, on sequences of characters *)

\* A text is the sequence of its characters. A character is a one-character
\* string; one that a string of this language cannot hold is the string of its
\* code point, as in "U+000B".
Chars(s) == [i \in 1..Len(s) |-> SubSeq(s, i, i)]

Min(S) == CHOOSE x \in S : \A y \in S : x <= y
Max(S) == CHOOSE x \in S : \A y \in S : x >= y

\* unicode.IsSpace: the characters of the White_Space property
IsSpace(c) ==
    c \in {"\t", "\n", "U+000B", "\f", "\r", " ", "U+0085", "U+00A0", "U+1680",
           "U+2000", "U+2001", "U+2002", "U+2003", "U+2004", "U+2005", "U+2006",
           "U+2007", "U+2008", "U+2009", "U+200A", "U+2028", "U+2029", "U+202F",
           "U+205F", "U+3000"}

TrimSpace(s) ==
    LET keep == {i \in 1..Len(s) : ~IsSpace(s[i])}
    IN  IF keep = {} THEN <<>> ELSE SubSeq(s, Min(keep), Max(keep))

\* strings.Split(s, sep) for a one-character separator: never empty
RECURSIVE Split(_, _)
Split(s, sep) ==
    LET at == {i \in 1..Len(s) : s[i] = sep}
    IN  IF at = {} THEN <<s>>
        ELSE <<SubSeq(s, 1, Min(at) - 1)>> \o Split(SubSeq(s, Min(at) + 1, Len(s)), sep)

\* strings.Fields: the maximal runs of non-space characters
RECURSIVE Fields(_)
Fields(s) ==
    LET keep == {i \in 1..Len(s) : ~IsSpace(s[i])}
    IN  IF keep = {} THEN <<>>
        ELSE LET b == Min(keep)
                 stop == {i \in b..Len(s) : IsSpace(s[i])}
                 e == IF stop = {} THEN Len(s) ELSE Min(stop) - 1
             IN  <<SubSeq(s, b, e)>> \o Fields(SubSeq(s, e + 1, Len(s)))

LowerLetters == Chars("abcdefghijklmnopqrstuvwxyz")
UpperLetters == Chars("ABCDEFGHIJKLMNOPQRSTUVWXYZ")

SeqsUpTo(A, n) == UNION {[1..k -> A] : k \in 0..n}

\* the characters U+0020..U+005F and U+0061..U+007E (the grave accent, U+0060,
\* is one of those a string cannot hold)
Printable ==
    Chars(" !\"#$%&'()*+,-./0123456789:;<=>?@ABCDEFGHIJKLMNOPQRSTUVWXYZ[\\]^_")

PrintableLower == Chars("abcdefghijklmnopqrstuvwxyz{|}~")

HexDigits == Chars("0123456789ABCDEF")

\* A byte that is not part of the UTF-8 encoding of a character (what is left
\* of a character when a text is cut inside it) is written as in "0xC3".
IsByte(c) == Len(c) = 4 /\ SubSeq(c, 1, 2) = "0x"

RECURSIVE HexValue(_)
HexValue(hs) ==
    IF hs = <<>> THEN 0
    ELSE 16 * HexValue(SubSeq(hs, 1, Len(hs) - 1))
         + (CHOOSE i \in 1..16 : HexDigits[i] = hs[Len(hs)]) - 1

\* n in at least width hexadecimal digits
RECURSIVE HexString(_, _)
HexString(n, width) ==
    IF n = 0 /\ width <= 0 THEN ""
    ELSE HexString(n \div 16, width - 1) \o HexDigits[(n % 16) + 1]

\* the code point of a character that is written as its code point
Ordinal(c) == HexValue(SubSeq(Chars(c), 3, Len(c)))

\* the code point of a character; in the place of a stray byte Go reads
\* utf8.RuneError, U+FFFD
CodePoint(c) ==
    IF \E i \in 1..Len(Printable) : Printable[i] = c
    THEN 31 + (CHOOSE i \in 1..Len(Printable) : Printable[i] = c)
    ELSE IF \E i \in 1..Len(PrintableLower) : PrintableLower[i] = c
    THEN 96 + (CHOOSE i \in 1..Len(PrintableLower) : PrintableLower[i] = c)
    ELSE CASE c = "\t" -> 9
           [] c = "\n" -> 10
           [] c = "\f" -> 12
           [] c = "\r" -> 13
           [] IsByte(c) -> HexValue(Chars("FFFD"))
           [] OTHER -> Ordinal(c)

\* the character of a code point
Char(n) ==
    IF n >= 32 /\ n <= 95 THEN Printable[n - 31]
    ELSE IF n >= 97 /\ n <= 126 THEN PrintableLower[n - 96]
    ELSE CASE n = 9 -> "\t"
           [] n = 10 -> "\n"
           [] n = 12 -> "\f"
           [] n = 13 -> "\r"
           [] OTHER -> "U+" \o HexString(n, 4)

Byte(b) == "0x" \o HexString(b, 2)

\* utf8.RuneLen of a code point
EncodedLen(n) == IF n < 128 THEN 1 ELSE IF n < 2048 THEN 2 ELSE IF n < 65536 THEN 3 ELSE 4

\* utf8.RuneLen, and 1 for a byte that is no character
RuneLen(c) == IF Len(c) = 1 \/ IsByte(c) THEN 1 ELSE EncodedLen(Ordinal(c))

\* byte k of the len bytes that encode the code point n: the first holds the
\* length and the highest bits, each of the others six bits
EncodedByte(n, len, k) ==
    IF k = 1 THEN <<0, 192, 224, 240>>[len] + (n \div <<1, 64, 4096, 262144>>[len])
    ELSE 128 + ((n \div <<1, 64, 4096, 262144>>[len - k + 1]) % 64)

\* the UTF-8 encoding of the character c of code point n
Encoded(c, n) ==
    IF n < 128 THEN <<c>>
    ELSE [k \in 1..EncodedLen(n) |-> Byte(EncodedByte(n, EncodedLen(n), k))]

\* the UTF-8 encoding of a character: the character itself when it is one
\* byte, its bytes otherwise
Bytes(c) == IF Len(c) = 1 \/ IsByte(c) THEN <<c>> ELSE Encoded(c, Ordinal(c))

\* the bytes of the characters i..j of s
RECURSIVE ByteCount(_, _, _)
ByteCount(s, i, j) ==
    IF i > j THEN 0
    ELSE IF i = j THEN RuneLen(s[i])
    ELSE ByteCount(s, i, (i + j) \div 2) + ByteCount(s, (i + j) \div 2 + 1, j)

\* len(s)
ByteLen(s) == ByteCount(s, 1, Len(s))

\* the greatest k of lo..hi such that the first k characters of s lie within
\* the first n bytes (the first lo do)
RECURSIVE Fitting(_, _, _, _)
Fitting(s, n, lo, hi) ==
    IF lo = hi THEN lo
    ELSE IF ByteCount(s, 1, (lo + hi + 1) \div 2) <= n
    THEN Fitting(s, n, (lo + hi + 1) \div 2, hi)
    ELSE Fitting(s, n, lo, (lo + hi + 1) \div 2 - 1)

\* every character of s is one byte
Plain(s) == \A i \in 1..Len(s) : Len(s[i]) = 1 \/ IsByte(s[i])

\* the first k characters of s and the first left bytes of the next
CutAt(s, k, left) ==
    SubSeq(s, 1, k) \o (IF left > 0 THEN SubSeq(Bytes(s[k + 1]), 1, left) ELSE <<>>)

\* s without its first k characters and the first left bytes of the next
CutFrom(s, k, left) ==
    IF left > 0
    THEN SubSeq(Bytes(s[k + 1]), left + 1, Len(Bytes(s[k + 1]))) \o SubSeq(s, k + 2, Len(s))
    ELSE SubSeq(s, k + 1, Len(s))

\* s cut after n bytes, the first k characters of s being those that lie
\* within them
SliceAt(s, n, k) == CutAt(s, k, n - ByteCount(s, 1, k))

SliceFromAt(s, n, k) == CutFrom(s, k, n - ByteCount(s, 1, k))

\* s[:n] for n <= len(s): a cut inside a character leaves its first bytes
Slice(s, n) ==
    IF Plain(s) THEN SubSeq(s, 1, n) ELSE SliceAt(s, n, Fitting(s, n, 0, Len(s)))

\* s[n:] for n <= len(s): a cut inside a character leaves its last bytes
SliceFrom(s, n) ==
    IF Plain(s) THEN SubSeq(s, n + 1, Len(s)) ELSE SliceFromAt(s, n, Fitting(s, n, 0, Len(s)))

\* the bytes of the characters i..j of s
RECURSIVE ByteSeq(_, _, _)
ByteSeq(s, i, j) ==
    IF i > j THEN <<>>
    ELSE IF i = j THEN Bytes(s[i])
    ELSE ByteSeq(s, i, (i + j) \div 2) \o ByteSeq(s, (i + j) \div 2 + 1, j)

\* []byte(s).  A text holds each character of its bytes as one element, and
\* as bytes only those that belong to no character.
BytesOf(s) == IF Plain(s) THEN s ELSE ByteSeq(s, 1, Len(s))

\* the part of s before its first one-byte character sep, s when it has
\* none: s[:strings.Index(s, sep)], and what strings.Cut keeps
Before(s, sep) ==
    IF \E i \in 1..Len(s) : s[i] = sep
    THEN SubSeq(s, 1, Min({i \in 1..Len(s) : s[i] = sep}) - 1)
    ELSE s

\* The searches of package strings compare bytes: a text contains the first
\* bytes of one of its characters.
StartsWith(bs, bp) == Len(bs) >= Len(bp) /\ SubSeq(bs, 1, Len(bp)) = bp

EndsWith(bs, bp) == Len(bs) >= Len(bp) /\ SubSeq(bs, Len(bs) - Len(bp) + 1, Len(bs)) = bp

\* the places of the bytes bs where the bytes bsub occur
Occurrences(bs, bsub) ==
    {i \in 1..(Len(bs) - Len(bsub) + 1) : SubSeq(bs, i, i + Len(bsub) - 1) = bsub}

HasPrefix(s, p) == StartsWith(BytesOf(s), BytesOf(p))

HasSuffix(s, p) == EndsWith(BytesOf(s), BytesOf(p))

Contains(s, sub) == Occurrences(BytesOf(s), BytesOf(sub)) # {}

\* the least place of a nonempty set of places as an offset, -1 for none
Offset(at) == IF at = {} THEN -1 ELSE Min(at) - 1

\* strings.Index: the offset in bytes of the first occurrence, -1 when there
\* is none
Index(s, sub) == Offset(Occurrences(BytesOf(s), BytesOf(sub)))

TrimPrefix(s, p) == IF HasPrefix(s, p) THEN SliceFrom(s, ByteLen(p)) ELSE s

\* a < b as Go compares strings: byte by byte, which for UTF-8 is code point
\* by code point
StringLess(a, b) ==
    LET differ == {i \in 1..Min({Len(a), Len(b)}) : a[i] # b[i]}
    IN  IF differ = {} THEN Len(a) < Len(b)
        ELSE CodePoint(a[Min(differ)]) < CodePoint(b[Min(differ)])

\* The simple case mappings of the Unicode Character Database (UnicodeData.txt,
\* version 15.0, the tables of package unicode) and the orbits of its simple
\* case folding (CaseFolding.txt, statuses C and S). <<lo, hi, stride, delta>>
\* maps the code points lo, lo + stride, ..., hi to themselves plus delta; the
\* code points of no range are mapped to themselves. FoldRanges takes a code
\* point to the least of its orbit.
UpperRanges ==
    {<<97, 122, 1, -32>>, <<181, 181, 1, 743>>, <<224, 246, 1, -32>>,
     <<248, 254, 1, -32>>, <<255, 255, 1, 121>>, <<257, 303, 2, -1>>,
     <<305, 305, 1, -232>>, <<307, 311, 2, -1>>, <<314, 328, 2, -1>>,
     <<331, 375, 2, -1>>, <<378, 382, 2, -1>>, <<383, 383, 1, -300>>,
     <<384, 384, 1, 195>>, <<387, 389, 2, -1>>, <<392, 392, 1, -1>>,
     <<396, 396, 1, -1>>, <<402, 402, 1, -1>>, <<405, 405, 1, 97>>,
     <<409, 409, 1, -1>>, <<410, 410, 1, 163>>, <<414, 414, 1, 130>>,
     <<417, 421, 2, -1>>, <<424, 424, 1, -1>>, <<429, 429, 1, -1>>,
     <<432, 432, 1, -1>>, <<436, 438, 2, -1>>, <<441, 441, 1, -1>>,
     <<445, 445, 1, -1>>, <<447, 447, 1, 56>>, <<453, 453, 1, -1>>,
     <<454, 454, 1, -2>>, <<456, 456, 1, -1>>, <<457, 457, 1, -2>>,
     <<459, 459, 1, -1>>, <<460, 460, 1, -2>>, <<462, 476, 2, -1>>,
     <<477, 477, 1, -79>>, <<479, 495, 2, -1>>, <<498, 498, 1, -1>>,
     <<499, 499, 1, -2>>, <<501, 501, 1, -1>>, <<505, 543, 2, -1>>,
     <<547, 563, 2, -1>>, <<572, 572, 1, -1>>, <<575, 576, 1, 10815>>,
     <<578, 578, 1, -1>>, <<583, 591, 2, -1>>, <<592, 592, 1, 10783>>,
     <<593, 593, 1, 10780>>, <<594, 594, 1, 10782>>, <<595, 595, 1, -210>>,
     <<596, 596, 1, -206>>, <<598, 599, 1, -205>>, <<601, 601, 1, -202>>,
     <<603, 603, 1, -203>>, <<604, 604, 1, 42319>>, <<608, 608, 1, -205>>,
     <<609, 609, 1, 42315>>, <<611, 611, 1, -207>>, <<613, 613, 1, 42280>>,
     <<614, 614, 1, 42308>>, <<616, 616, 1, -209>>, <<617, 617, 1, -211>>,
     <<618, 618, 1, 42308>>, <<619, 619, 1, 10743>>, <<620, 620, 1, 42305>>,
     <<623, 623, 1, -211>>, <<625, 625, 1, 10749>>, <<626, 626, 1, -213>>,
     <<629, 629, 1, -214>>, <<637, 637, 1, 10727>>, <<640, 640, 1, -218>>,
     <<642, 642, 1, 42307>>, <<643, 643, 1, -218>>, <<647, 647, 1, 42282>>,
     <<648, 648, 1, -218>>, <<649, 649, 1, -69>>, <<650, 651, 1, -217>>,
     <<652, 652, 1, -71>>, <<658, 658, 1, -219>>, <<669, 669, 1, 42261>>,
     <<670, 670, 1, 42258>>, <<837, 837, 1, 84>>, <<881, 883, 2, -1>>,
     <<887, 887, 1, -1>>, <<891, 893, 1, 130>>, <<940, 940, 1, -38>>,
     <<941, 943, 1, -37>>, <<945, 961, 1, -32>>, <<962, 962, 1, -31>>,
     <<963, 971, 1, -32>>, <<972, 972, 1, -64>>, <<973, 974, 1, -63>>,
     <<976, 976, 1, -62>>, <<977, 977, 1, -57>>, <<981, 981, 1, -47>>,
     <<982, 982, 1, -54>>, <<983, 983, 1, -8>>, <<985, 1007, 2, -1>>,
     <<1008, 1008, 1, -86>>, <<1009, 1009, 1, -80>>, <<1010, 1010, 1, 7>>,
     <<1011, 1011, 1, -116>>, <<1013, 1013, 1, -96>>, <<1016, 1016, 1, -1>>,
     <<1019, 1019, 1, -1>>, <<1072, 1103, 1, -32>>, <<1104, 1119, 1, -80>>,
     <<1121, 1153, 2, -1>>, <<1163, 1215, 2, -1>>, <<1218, 1230, 2, -1>>,
     <<1231, 1231, 1, -15>>, <<1233, 1327, 2, -1>>, <<1377, 1414, 1, -48>>,
     <<4304, 4346, 1, 3008>>, <<4349, 4351, 1, 3008>>, <<5112, 5117, 1, -8>>,
     <<7296, 7296, 1, -6254>>, <<7297, 7297, 1, -6253>>,
     <<7298, 7298, 1, -6244>>, <<7299, 7300, 1, -6242>>,
     <<7301, 7301, 1, -6243>>, <<7302, 7302, 1, -6236>>,
     <<7303, 7303, 1, -6181>>, <<7304, 7304, 1, 35266>>,
     <<7545, 7545, 1, 35332>>, <<7549, 7549, 1, 3814>>,
     <<7566, 7566, 1, 35384>>, <<7681, 7829, 2, -1>>, <<7835, 7835, 1, -59>>,
     <<7841, 7935, 2, -1>>, <<7936, 7943, 1, 8>>, <<7952, 7957, 1, 8>>,
     <<7968, 7975, 1, 8>>, <<7984, 7991, 1, 8>>, <<8000, 8005, 1, 8>>,
     <<8017, 8023, 2, 8>>, <<8032, 8039, 1, 8>>, <<8048, 8049, 1, 74>>,
     <<8050, 8053, 1, 86>>, <<8054, 8055, 1, 100>>, <<8056, 8057, 1, 128>>,
     <<8058, 8059, 1, 112>>, <<8060, 8061, 1, 126>>, <<8064, 8071, 1, 8>>,
     <<8080, 8087, 1, 8>>, <<8096, 8103, 1, 8>>, <<8112, 8113, 1, 8>>,
     <<8115, 8115, 1, 9>>, <<8126, 8126, 1, -7205>>, <<8131, 8131, 1, 9>>,
     <<8144, 8145, 1, 8>>, <<8160, 8161, 1, 8>>, <<8165, 8165, 1, 7>>,
     <<8179, 8179, 1, 9>>, <<8526, 8526, 1, -28>>, <<8560, 8575, 1, -16>>,
     <<8580, 8580, 1, -1>>, <<9424, 9449, 1, -26>>, <<11312, 11359, 1, -48>>,
     <<11361, 11361, 1, -1>>, <<11365, 11365, 1, -10795>>,
     <<11366, 11366, 1, -10792>>, <<11368, 11372, 2, -1>>,
     <<11379, 11379, 1, -1>>, <<11382, 11382, 1, -1>>,
     <<11393, 11491, 2, -1>>, <<11500, 11502, 2, -1>>,
     <<11507, 11507, 1, -1>>, <<11520, 11557, 1, -7264>>,
     <<11559, 11559, 1, -7264>>, <<11565, 11565, 1, -7264>>,
     <<42561, 42605, 2, -1>>, <<42625, 42651, 2, -1>>,
     <<42787, 42799, 2, -1>>, <<42803, 42863, 2, -1>>,
     <<42874, 42876, 2, -1>>, <<42879, 42887, 2, -1>>,
     <<42892, 42892, 1, -1>>, <<42897, 42899, 2, -1>>,
     <<42900, 42900, 1, 48>>, <<42903, 42921, 2, -1>>,
     <<42933, 42947, 2, -1>>, <<42952, 42954, 2, -1>>,
     <<42961, 42961, 1, -1>>, <<42967, 42969, 2, -1>>,
     <<42998, 42998, 1, -1>>, <<43859, 43859, 1, -928>>,
     <<43888, 43967, 1, -38864>>, <<65345, 65370, 1, -32>>,
     <<66600, 66639, 1, -40>>, <<66776, 66811, 1, -40>>,
     <<66967, 66977, 1, -39>>, <<66979, 66993, 1, -39>>,
     <<66995, 67001, 1, -39>>, <<67003, 67004, 1, -39>>,
     <<68800, 68850, 1, -64>>, <<71872, 71903, 1, -32>>,
     <<93792, 93823, 1, -32>>, <<125218, 125251, 1, -34>>}

LowerRanges ==
    {<<65, 90, 1, 32>>, <<192, 214, 1, 32>>, <<216, 222, 1, 32>>,
     <<256, 302, 2, 1>>, <<304, 304, 1, -199>>, <<306, 310, 2, 1>>,
     <<313, 327, 2, 1>>, <<330, 374, 2, 1>>, <<376, 376, 1, -121>>,
     <<377, 381, 2, 1>>, <<385, 385, 1, 210>>, <<386, 388, 2, 1>>,
     <<390, 390, 1, 206>>, <<391, 391, 1, 1>>, <<393, 394, 1, 205>>,
     <<395, 395, 1, 1>>, <<398, 398, 1, 79>>, <<399, 399, 1, 202>>,
     <<400, 400, 1, 203>>, <<401, 401, 1, 1>>, <<403, 403, 1, 205>>,
     <<404, 404, 1, 207>>, <<406, 406, 1, 211>>, <<407, 407, 1, 209>>,
     <<408, 408, 1, 1>>, <<412, 412, 1, 211>>, <<413, 413, 1, 213>>,
     <<415, 415, 1, 214>>, <<416, 420, 2, 1>>, <<422, 422, 1, 218>>,
     <<423, 423, 1, 1>>, <<425, 425, 1, 218>>, <<428, 428, 1, 1>>,
     <<430, 430, 1, 218>>, <<431, 431, 1, 1>>, <<433, 434, 1, 217>>,
     <<435, 437, 2, 1>>, <<439, 439, 1, 219>>, <<440, 440, 1, 1>>,
     <<444, 444, 1, 1>>, <<452, 452, 1, 2>>, <<453, 453, 1, 1>>,
     <<455, 455, 1, 2>>, <<456, 456, 1, 1>>, <<458, 458, 1, 2>>,
     <<459, 475, 2, 1>>, <<478, 494, 2, 1>>, <<497, 497, 1, 2>>,
     <<498, 500, 2, 1>>, <<502, 502, 1, -97>>, <<503, 503, 1, -56>>,
     <<504, 542, 2, 1>>, <<544, 544, 1, -130>>, <<546, 562, 2, 1>>,
     <<570, 570, 1, 10795>>, <<571, 571, 1, 1>>, <<573, 573, 1, -163>>,
     <<574, 574, 1, 10792>>, <<577, 577, 1, 1>>, <<579, 579, 1, -195>>,
     <<580, 580, 1, 69>>, <<581, 581, 1, 71>>, <<582, 590, 2, 1>>,
     <<880, 882, 2, 1>>, <<886, 886, 1, 1>>, <<895, 895, 1, 116>>,
     <<902, 902, 1, 38>>, <<904, 906, 1, 37>>, <<908, 908, 1, 64>>,
     <<910, 911, 1, 63>>, <<913, 929, 1, 32>>, <<931, 939, 1, 32>>,
     <<975, 975, 1, 8>>, <<984, 1006, 2, 1>>, <<1012, 1012, 1, -60>>,
     <<1015, 1015, 1, 1>>, <<1017, 1017, 1, -7>>, <<1018, 1018, 1, 1>>,
     <<1021, 1023, 1, -130>>, <<1024, 1039, 1, 80>>, <<1040, 1071, 1, 32>>,
     <<1120, 1152, 2, 1>>, <<1162, 1214, 2, 1>>, <<1216, 1216, 1, 15>>,
     <<1217, 1229, 2, 1>>, <<1232, 1326, 2, 1>>, <<1329, 1366, 1, 48>>,
     <<4256, 4293, 1, 7264>>, <<4295, 4295, 1, 7264>>,
     <<4301, 4301, 1, 7264>>, <<5024, 5103, 1, 38864>>, <<5104, 5109, 1, 8>>,
     <<7312, 7354, 1, -3008>>, <<7357, 7359, 1, -3008>>, <<7680, 7828, 2, 1>>,
     <<7838, 7838, 1, -7615>>, <<7840, 7934, 2, 1>>, <<7944, 7951, 1, -8>>,
     <<7960, 7965, 1, -8>>, <<7976, 7983, 1, -8>>, <<7992, 7999, 1, -8>>,
     <<8008, 8013, 1, -8>>, <<8025, 8031, 2, -8>>, <<8040, 8047, 1, -8>>,
     <<8072, 8079, 1, -8>>, <<8088, 8095, 1, -8>>, <<8104, 8111, 1, -8>>,
     <<8120, 8121, 1, -8>>, <<8122, 8123, 1, -74>>, <<8124, 8124, 1, -9>>,
     <<8136, 8139, 1, -86>>, <<8140, 8140, 1, -9>>, <<8152, 8153, 1, -8>>,
     <<8154, 8155, 1, -100>>, <<8168, 8169, 1, -8>>, <<8170, 8171, 1, -112>>,
     <<8172, 8172, 1, -7>>, <<8184, 8185, 1, -128>>, <<8186, 8187, 1, -126>>,
     <<8188, 8188, 1, -9>>, <<8486, 8486, 1, -7517>>,
     <<8490, 8490, 1, -8383>>, <<8491, 8491, 1, -8262>>,
     <<8498, 8498, 1, 28>>, <<8544, 8559, 1, 16>>, <<8579, 8579, 1, 1>>,
     <<9398, 9423, 1, 26>>, <<11264, 11311, 1, 48>>, <<11360, 11360, 1, 1>>,
     <<11362, 11362, 1, -10743>>, <<11363, 11363, 1, -3814>>,
     <<11364, 11364, 1, -10727>>, <<11367, 11371, 2, 1>>,
     <<11373, 11373, 1, -10780>>, <<11374, 11374, 1, -10749>>,
     <<11375, 11375, 1, -10783>>, <<11376, 11376, 1, -10782>>,
     <<11378, 11378, 1, 1>>, <<11381, 11381, 1, 1>>,
     <<11390, 11391, 1, -10815>>, <<11392, 11490, 2, 1>>,
     <<11499, 11501, 2, 1>>, <<11506, 11506, 1, 1>>, <<42560, 42604, 2, 1>>,
     <<42624, 42650, 2, 1>>, <<42786, 42798, 2, 1>>, <<42802, 42862, 2, 1>>,
     <<42873, 42875, 2, 1>>, <<42877, 42877, 1, -35332>>,
     <<42878, 42886, 2, 1>>, <<42891, 42891, 1, 1>>,
     <<42893, 42893, 1, -42280>>, <<42896, 42898, 2, 1>>,
     <<42902, 42920, 2, 1>>, <<42922, 42922, 1, -42308>>,
     <<42923, 42923, 1, -42319>>, <<42924, 42924, 1, -42315>>,
     <<42925, 42925, 1, -42305>>, <<42926, 42926, 1, -42308>>,
     <<42928, 42928, 1, -42258>>, <<42929, 42929, 1, -42282>>,
     <<42930, 42930, 1, -42261>>, <<42931, 42931, 1, 928>>,
     <<42932, 42946, 2, 1>>, <<42948, 42948, 1, -48>>,
     <<42949, 42949, 1, -42307>>, <<42950, 42950, 1, -35384>>,
     <<42951, 42953, 2, 1>>, <<42960, 42960, 1, 1>>, <<42966, 42968, 2, 1>>,
     <<42997, 42997, 1, 1>>, <<65313, 65338, 1, 32>>, <<66560, 66599, 1, 40>>,
     <<66736, 66771, 1, 40>>, <<66928, 66938, 1, 39>>,
     <<66940, 66954, 1, 39>>, <<66956, 66962, 1, 39>>,
     <<66964, 66965, 1, 39>>, <<68736, 68786, 1, 64>>,
     <<71840, 71871, 1, 32>>, <<93760, 93791, 1, 32>>,
     <<125184, 125217, 1, 34>>}

FoldRanges ==
    {<<97, 122, 1, -32>>, <<224, 246, 1, -32>>, <<248, 254, 1, -32>>,
     <<257, 303, 2, -1>>, <<307, 311, 2, -1>>, <<314, 328, 2, -1>>,
     <<331, 375, 2, -1>>, <<376, 376, 1, -121>>, <<378, 382, 2, -1>>,
     <<383, 383, 1, -300>>, <<387, 389, 2, -1>>, <<392, 392, 1, -1>>,
     <<396, 396, 1, -1>>, <<402, 402, 1, -1>>, <<409, 409, 1, -1>>,
     <<417, 421, 2, -1>>, <<424, 424, 1, -1>>, <<429, 429, 1, -1>>,
     <<432, 432, 1, -1>>, <<436, 438, 2, -1>>, <<441, 441, 1, -1>>,
     <<445, 445, 1, -1>>, <<453, 453, 1, -1>>, <<454, 454, 1, -2>>,
     <<456, 456, 1, -1>>, <<457, 457, 1, -2>>, <<459, 459, 1, -1>>,
     <<460, 460, 1, -2>>, <<462, 476, 2, -1>>, <<477, 477, 1, -79>>,
     <<479, 495, 2, -1>>, <<498, 498, 1, -1>>, <<499, 499, 1, -2>>,
     <<501, 501, 1, -1>>, <<502, 502, 1, -97>>, <<503, 503, 1, -56>>,
     <<505, 543, 2, -1>>, <<544, 544, 1, -130>>, <<547, 563, 2, -1>>,
     <<572, 572, 1, -1>>, <<573, 573, 1, -163>>, <<578, 578, 1, -1>>,
     <<579, 579, 1, -195>>, <<583, 591, 2, -1>>, <<595, 595, 1, -210>>,
     <<596, 596, 1, -206>>, <<598, 599, 1, -205>>, <<601, 601, 1, -202>>,
     <<603, 603, 1, -203>>, <<608, 608, 1, -205>>, <<611, 611, 1, -207>>,
     <<616, 616, 1, -209>>, <<617, 617, 1, -211>>, <<623, 623, 1, -211>>,
     <<626, 626, 1, -213>>, <<629, 629, 1, -214>>, <<640, 640, 1, -218>>,
     <<643, 643, 1, -218>>, <<648, 648, 1, -218>>, <<649, 649, 1, -69>>,
     <<650, 651, 1, -217>>, <<652, 652, 1, -71>>, <<658, 658, 1, -219>>,
     <<881, 883, 2, -1>>, <<887, 887, 1, -1>>, <<921, 921, 1, -84>>,
     <<924, 924, 1, -743>>, <<940, 940, 1, -38>>, <<941, 943, 1, -37>>,
     <<945, 952, 1, -32>>, <<953, 953, 1, -116>>, <<954, 955, 1, -32>>,
     <<956, 956, 1, -775>>, <<957, 961, 1, -32>>, <<962, 962, 1, -31>>,
     <<963, 971, 1, -32>>, <<972, 972, 1, -64>>, <<973, 974, 1, -63>>,
     <<976, 976, 1, -62>>, <<977, 977, 1, -57>>, <<981, 981, 1, -47>>,
     <<982, 982, 1, -54>>, <<983, 983, 1, -8>>, <<985, 1007, 2, -1>>,
     <<1008, 1008, 1, -86>>, <<1009, 1009, 1, -80>>, <<1011, 1011, 1, -116>>,
     <<1012, 1012, 1, -92>>, <<1013, 1013, 1, -96>>, <<1016, 1016, 1, -1>>,
     <<1017, 1017, 1, -7>>, <<1019, 1019, 1, -1>>, <<1021, 1023, 1, -130>>,
     <<1072, 1103, 1, -32>>, <<1104, 1119, 1, -80>>, <<1121, 1153, 2, -1>>,
     <<1163, 1215, 2, -1>>, <<1218, 1230, 2, -1>>, <<1231, 1231, 1, -15>>,
     <<1233, 1327, 2, -1>>, <<1377, 1414, 1, -48>>, <<5112, 5117, 1, -8>>,
     <<7296, 7296, 1, -6254>>, <<7297, 7297, 1, -6253>>,
     <<7298, 7298, 1, -6244>>, <<7299, 7300, 1, -6242>>,
     <<7301, 7301, 1, -6243>>, <<7302, 7302, 1, -6236>>,
     <<7303, 7303, 1, -6181>>, <<7312, 7354, 1, -3008>>,
     <<7357, 7359, 1, -3008>>, <<7681, 7829, 2, -1>>, <<7835, 7835, 1, -59>>,
     <<7838, 7838, 1, -7615>>, <<7841, 7935, 2, -1>>, <<7944, 7951, 1, -8>>,
     <<7960, 7965, 1, -8>>, <<7976, 7983, 1, -8>>, <<7992, 7999, 1, -8>>,
     <<8008, 8013, 1, -8>>, <<8025, 8031, 2, -8>>, <<8040, 8047, 1, -8>>,
     <<8072, 8079, 1, -8>>, <<8088, 8095, 1, -8>>, <<8104, 8111, 1, -8>>,
     <<8120, 8121, 1, -8>>, <<8122, 8123, 1, -74>>, <<8124, 8124, 1, -9>>,
     <<8126, 8126, 1, -7289>>, <<8136, 8139, 1, -86>>, <<8140, 8140, 1, -9>>,
     <<8152, 8153, 1, -8>>, <<8154, 8155, 1, -100>>, <<8168, 8169, 1, -8>>,
     <<8170, 8171, 1, -112>>, <<8172, 8172, 1, -7>>, <<8184, 8185, 1, -128>>,
     <<8186, 8187, 1, -126>>, <<8188, 8188, 1, -9>>, <<8486, 8486, 1, -7549>>,
     <<8490, 8490, 1, -8415>>, <<8491, 8491, 1, -8294>>,
     <<8526, 8526, 1, -28>>, <<8560, 8575, 1, -16>>, <<8580, 8580, 1, -1>>,
     <<9424, 9449, 1, -26>>, <<11312, 11359, 1, -48>>,
     <<11361, 11361, 1, -1>>, <<11362, 11362, 1, -10743>>,
     <<11363, 11363, 1, -3814>>, <<11364, 11364, 1, -10727>>,
     <<11365, 11365, 1, -10795>>, <<11366, 11366, 1, -10792>>,
     <<11368, 11372, 2, -1>>, <<11373, 11373, 1, -10780>>,
     <<11374, 11374, 1, -10749>>, <<11375, 11375, 1, -10783>>,
     <<11376, 11376, 1, -10782>>, <<11379, 11379, 1, -1>>,
     <<11382, 11382, 1, -1>>, <<11390, 11391, 1, -10815>>,
     <<11393, 11491, 2, -1>>, <<11500, 11502, 2, -1>>,
     <<11507, 11507, 1, -1>>, <<11520, 11557, 1, -7264>>,
     <<11559, 11559, 1, -7264>>, <<11565, 11565, 1, -7264>>,
     <<42561, 42569, 2, -1>>, <<42570, 42570, 1, -35266>>,
     <<42571, 42571, 1, -35267>>, <<42573, 42605, 2, -1>>,
     <<42625, 42651, 2, -1>>, <<42787, 42799, 2, -1>>,
     <<42803, 42863, 2, -1>>, <<42874, 42876, 2, -1>>,
     <<42877, 42877, 1, -35332>>, <<42879, 42887, 2, -1>>,
     <<42892, 42892, 1, -1>>, <<42893, 42893, 1, -42280>>,
     <<42897, 42899, 2, -1>>, <<42903, 42921, 2, -1>>,
     <<42922, 42922, 1, -42308>>, <<42923, 42923, 1, -42319>>,
     <<42924, 42924, 1, -42315>>, <<42925, 42925, 1, -42305>>,
     <<42926, 42926, 1, -42308>>, <<42928, 42928, 1, -42258>>,
     <<42929, 42929, 1, -42282>>, <<42930, 42930, 1, -42261>>,
     <<42933, 42947, 2, -1>>, <<42948, 42948, 1, -48>>,
     <<42949, 42949, 1, -42307>>, <<42950, 42950, 1, -35384>>,
     <<42952, 42954, 2, -1>>, <<42961, 42961, 1, -1>>,
     <<42967, 42969, 2, -1>>, <<42998, 42998, 1, -1>>,
     <<43859, 43859, 1, -928>>, <<43888, 43967, 1, -38864>>,
     <<65345, 65370, 1, -32>>, <<66600, 66639, 1, -40>>,
     <<66776, 66811, 1, -40>>, <<66967, 66977, 1, -39>>,
     <<66979, 66993, 1, -39>>, <<66995, 67001, 1, -39>>,
     <<67003, 67004, 1, -39>>, <<68800, 68850, 1, -64>>,
     <<71872, 71903, 1, -32>>, <<93792, 93823, 1, -32>>,
     <<125218, 125251, 1, -34>>}

Mapped(ranges, n) ==
    LET hit == {r \in ranges : r[1] <= n /\ n <= r[2] /\ (n - r[1]) % r[3] = 0}
    IN  IF hit = {} THEN n ELSE n + (CHOOSE r \in hit : TRUE)[4]

\* unicode.ToUpper, unicode.ToLower as strings.Map applies them: a byte that
\* is no character becomes U+FFFD
UpperChar(c) ==
    IF \E i \in 1..26 : LowerLetters[i] = c
    THEN UpperLetters[CHOOSE i \in 1..26 : LowerLetters[i] = c]
    ELSE IF Len(c) = 1 THEN c
    ELSE Char(Mapped(UpperRanges, CodePoint(c)))

LowerChar(c) ==
    IF \E i \in 1..26 : UpperLetters[i] = c
    THEN LowerLetters[CHOOSE i \in 1..26 : UpperLetters[i] = c]
    ELSE IF Len(c) = 1 THEN c
    ELSE Char(Mapped(LowerRanges, CodePoint(c)))

ToUpper(s) == [i \in 1..Len(s) |-> UpperChar(s[i])]
ToLower(s) == [i \in 1..Len(s) |-> LowerChar(s[i])]

-----------------------------------------------------------------------------
(* internal/scraper: content sniffing *)

isJSON(c) ==
    LET trimmed == TrimSpace(c)
    IN  \/ HasPrefix(trimmed, <<"{">>) /\ HasSuffix(trimmed, <<"}">>)
        \/ HasPrefix(trimmed, <<"[">>) /\ HasSuffix(trimmed, <<"]">>)

\* isYAML with a plausible slip: the '":' exclusion is forgotten
isYAMLNoQuoteExclusion(c) ==
    LET trimmed == TrimSpace(c)
        lines == Split(trimmed, "\n")
    IN  IF isJSON(c) THEN FALSE
        ELSE \E k \in 1..Len(lines) :
                /\ Contains(lines[k], <<":">>)
                /\ ~Contains(lines[k], <<"{", ":">>)

isYAML(c) ==
    LET trimmed == TrimSpace(c)
        lines == Split(trimmed, "\n")
    IN  IF isJSON(c) THEN FALSE
        ELSE \E k \in 1..Len(lines) :
                /\ Contains(lines[k], <<":">>)
                /\ ~Contains(lines[k], <<"{", ":">>)
                /\ ~Contains(lines[k], <<"\"", ":">>)

SniffAlphabet == {"{", "}", "[", "]", ":", "\"", "a", " ", "\n"}

SniffContents == SeqsUpTo(SniffAlphabet, MaxContentLen)

-----------------------------------------------------------------------------
(* Nondeterministic enumeration order of a Go map *)

\* every order in which `for k := range m` may visit the keys S
RECURSIVE Orders(_)
Orders(S) ==
    IF S = {} THEN {<<>>}
    ELSE UNION {{<<k>> \o rest : rest \in Orders(S \ {k})} : k \in S}

\* the sequences that take their i-th element from the i-th set of ss
RECURSIVE SeqProduct(_)
SeqProduct(ss) ==
    IF ss = <<>> THEN {<<>>}
    ELSE {<<h>> \o t : h \in Head(ss), t \in SeqProduct(Tail(ss))}

\* the concatenations that take their i-th part from the i-th set of ss
RECURSIVE ConcatProduct(_)
ConcatProduct(ss) ==
    IF ss = <<>> THEN {<<>>}
    ELSE {h \o t : h \in Head(ss), t \in ConcatProduct(Tail(ss))}

-----------------------------------------------------------------------------
(* pkg/parser: the OpenAPI/Swagger normalizer *)

\* A JSON text is given by what encoding/json sees in it:
\*   syntax  - whether it is well-formed JSON
\*   top     - the kind of the top-level value
\*   openapi, swagger - [kind, s]: "absent", "null", "string" (value s), "number"
\*   info    - title, description, version
\*   paths   - path |-> the members of the path item, in the order of the text,
\*             each [name, kind: "null" | "object", op]
\* Names, titles and descriptions are character sequences. The object of an
\* operation is given by its members:
\*   summary, description - [kind: "absent" | "null" | "string", s]
\*   parameters - [kind: "absent" | "null" | "array", elems], an element being
\*       name, description: [kind, s]; in, type: [kind, s] with s a word;
\*       required: [kind: "absent" | "null" | "bool", b];
\*       schema: [kind: "absent" | "null" | "object", type: [kind, s]]
\*   responses - [kind: "absent" | "null" | "object", entries], entries being
\*       key |-> [kind: "object" | "other", desc: [kind, s]]

Methods == <<"GET", "POST", "PUT", "DELETE", "OPTIONS", "HEAD", "PATCH">>

\* the simple case folding of encoding/json (foldName, foldRune): a letter of
\* ASCII in upper case, any other character as the least of its orbit
FoldChar(c) ==
    IF Len(c) = 1 THEN UpperChar(c) ELSE Char(Mapped(FoldRanges, CodePoint(c)))

FoldName(name) == [i \in 1..Len(name) |-> FoldChar(name[i])]

\* the PathItem field a member name decodes into (encoding/json matches the
\* `json:"get"` tags without regard to case); "" when it matches no field
PathItemField(name) ==
    LET folded == FoldName(name)
        hit == {n \in 1..Len(Methods) : folded = Chars(Methods[n])}
    IN  IF hit = {} THEN "" ELSE Methods[CHOOSE n \in hit : TRUE]

\* json.Unmarshal of a string-typed field: absent and null leave ""
StringField(v) == IF v.kind = "string" THEN v.s ELSE <<>>

\* json.Unmarshal(content, &openAPIDoc): "" on success, else the error kind
UnmarshalError(j) ==
    IF ~j.syntax THEN "syntax"
    ELSE IF j.top \notin {"object", "null"} THEN "type"
    ELSE IF j.top = "object" /\ (j.openapi.kind = "number" \/ j.swagger.kind = "number")
         THEN "type"
    ELSE ""

\* the decoded OpenAPIDoc: JSON null leaves the zero value
Unmarshal(j) ==
    IF j.top = "null"
    THEN [Openapi |-> <<>>, Swagger |-> <<>>,
          Info |-> [deep |-> FALSE, title |-> <<>>, description |-> <<>>, version |-> <<>>],
          Paths |-> << >>]
    ELSE [Openapi |-> StringField(j.openapi), Swagger |-> StringField(j.swagger),
          Info |-> j.info, Paths |-> j.paths]

\* OpenAPIDoc.OpenAPI with a plausible slip: the swagger field is not consulted
OpenAPIWithoutSwagger(doc) == doc.Openapi

\* OpenAPIDoc.OpenAPI
OpenAPI(doc) == IF doc.Openapi # <<>> THEN doc.Openapi ELSE doc.Swagger

\* The decoder writes into the value that is there: a member that is absent,
\* or null for a string or a bool, leaves the field as it was. A pointer is
\* <<>> when nil and <<v>> otherwise.
DecodeString(old, v) == IF v.kind = "string" THEN v.s ELSE old

DecodeBool(old, v) == IF v.kind = "bool" THEN v.b ELSE old

ZeroSchema == [Type |-> ""]

\* Parameter.Schema, a *Schema: null sets nil, an object decodes into the
\* Schema that is there or into a new one
DecodeSchema(old, v) ==
    IF v.kind = "absent" THEN old
    ELSE IF v.kind = "null" THEN <<>>
    ELSE LET there == IF old = <<>> THEN ZeroSchema ELSE old[1]
         IN  <<[Type |-> DecodeString(there.Type, v.type)]>>

ZeroParameter ==
    [Name |-> <<>>, In |-> "", Description |-> <<>>, Required |-> FALSE,
     Schema |-> <<>>, Type |-> ""]

DecodeParameter(old, v) ==
    [Name |-> DecodeString(old.Name, v.name),
     In |-> DecodeString(old.In, v.in),
     Description |-> DecodeString(old.Description, v.description),
     Required |-> DecodeBool(old.Required, v.required),
     Schema |-> DecodeSchema(old.Schema, v.schema),
     Type |-> DecodeString(old.Type, v.type)]

\* Operation.Parameters, a slice, with the elements of its array behind its
\* length (Spare). Null and [] give a slice without an array; any other array
\* is decoded element by element into the array that is there, whose elements
\* are not cleared first, and the length is set to the number of elements.
DecodeParameters(old, v) ==
    IF v.kind = "absent" THEN old
    ELSE IF v.kind = "null" \/ v.elems = <<>> THEN [Parameters |-> <<>>, Spare |-> <<>>]
    ELSE LET array == old.Parameters \o old.Spare
             n == Len(v.elems)
         IN  [Parameters |->
                [i \in 1..n |->
                    DecodeParameter(IF i <= Len(array) THEN array[i] ELSE ZeroParameter,
                                    v.elems[i])],
              Spare |-> SubSeq(array, n + 1, Len(array))]

\* Operation.Responses, a map: null sets nil, an object adds its entries to the
\* map that is there
DecodeResponses(old, v) ==
    IF v.kind = "absent" THEN old
    ELSE IF v.kind = "null" THEN << >>
    ELSE [k \in DOMAIN v.entries \cup DOMAIN old |->
            IF k \in DOMAIN v.entries THEN v.entries[k] ELSE old[k]]

ZeroOperation ==
    [Summary |-> <<>>, Description |-> <<>>, Parameters |-> <<>>, Spare |-> <<>>,
     Responses |-> << >>]

DecodeOperation(old, v) ==
    LET params == DecodeParameters([Parameters |-> old.Parameters, Spare |-> old.Spare],
                                   v.parameters)
    IN  [Summary |-> DecodeString(old.Summary, v.summary),
         Description |-> DecodeString(old.Description, v.description),
         Parameters |-> params.Parameters, Spare |-> params.Spare,
         Responses |-> DecodeResponses(old.Responses, v.responses)]

\* the *Operation in field m of the PathItem after the members of item have
\* been decoded, one after the other: null sets nil, an object decodes into the
\* Operation that is there or into a new one
RECURSIVE Field(_, _)
Field(item, m) ==
    IF item = <<>> THEN <<>>
    ELSE LET before == Field(SubSeq(item, 1, Len(item) - 1), m)
             last == item[Len(item)]
         IN  IF PathItemField(last.name) # m THEN before
             ELSE IF last.kind = "null" THEN <<>>
             ELSE <<DecodeOperation(IF before = <<>> THEN ZeroOperation ELSE before[1],
                                    last.op)>>

\* PathItem.Operations with a plausible slip: the Patch field is left out
OperationsWithoutPatch(item) ==
    {Methods[i] : i \in {n \in 1..Len(Methods) :
                            Methods[n] # "PATCH" /\ Field(item, Methods[n]) # <<>>}}

\* PathItem.Operations: the keys of the result map
Operations(item) == {Methods[i] : i \in {n \in 1..Len(Methods) : Field(item, Methods[n]) # <<>>}}

\* PathItem.Operations: the value of the result map at m
OperationOf(item, m) == Field(item, m)[1]

Digits == Chars("0123456789")
IsDigit(c) == \E i \in 1..10 : Digits[i] = c
DigitValue(c) == (CHOOSE i \in 1..10 : Digits[i] = c) - 1

\* An int is given by its decimal numeral: a "-" when it is negative, then its
\* digits without leading zeros. Every value of a 64-bit int has one.
Numeral(s) == Chars(s)

RECURSIVE StripZeros(_)
StripZeros(ds) == IF Len(ds) > 1 /\ ds[1] = "0" THEN StripZeros(Tail(ds)) ELSE ds

\* a <= b, for two runs of digits of the same length
DigitsLeq(a, b) ==
    LET differ == {i \in 1..Len(a) : a[i] # b[i]}
    IN  differ = {} \/ DigitValue(a[Min(differ)]) < DigitValue(b[Min(differ)])

MaxInt64 == Chars("9223372036854775807")
MinInt64 == Chars("9223372036854775808")     \* without its sign

\* strconv.ParseInt(tok, 10, 64) returns no range error
ParseIntInRange(negative, ds) ==
    LET limit == IF negative THEN MinInt64 ELSE MaxInt64
    IN  \/ Len(StripZeros(ds)) < Len(limit)
        \/ Len(StripZeros(ds)) = Len(limit) /\ DigitsLeq(StripZeros(ds), limit)

\* code after fmt.Sscanf(s, "%d", &code) with code = 0 before: white space is
\* skipped (a newline is an error), one sign is accepted, then the longest
\* run of digits is converted; what follows the digits is not looked at.
\* Without a digit, or with digits out of the range of int64, the scan fails
\* and code keeps 0.
Sscanf(s) ==
    LET nonblank == {i \in 1..Len(s) : ~IsSpace(s[i]) \/ s[i] = "\n"}
    IN  IF nonblank = {} THEN Numeral("0")
        ELSE LET b == Min(nonblank)
                 signed == s[b] \in {"+", "-"}
                 d == IF signed THEN b + 1 ELSE b
                 stop == {i \in d..Len(s) : ~IsDigit(s[i])}
                 e == IF stop = {} THEN Len(s) ELSE Min(stop) - 1
                 magnitude == StripZeros(SubSeq(s, d, e))
             IN  IF e < d THEN Numeral("0")
                 ELSE IF ~ParseIntInRange(s[b] = "-", SubSeq(s, d, e)) THEN Numeral("0")
                 ELSE IF s[b] = "-" /\ magnitude # Numeral("0") THEN <<"-">> \o magnitude
                 ELSE magnitude

S_default == Chars("default")

\* the status code of a response key
StatusOf(key) == IF key = S_default THEN Numeral("0") ELSE Sscanf(key)

ResponseOf(key, obj) ==
    [StatusCode |-> StatusOf(key),
     Description |-> IF obj.kind = "object" /\ obj.desc.kind = "string" THEN obj.desc.s ELSE <<>>]

\* parameter type with a plausible slip: the legacy field wins when it is set
ParamTypeLegacyFirst(param) ==
    IF param.Type # "" THEN param.Type
    ELSE IF param.Schema # <<>> THEN param.Schema[1].Type ELSE ""

ParamType(param) ==
    IF param.Schema # <<>> /\ param.Schema[1].Type # ""
    THEN param.Schema[1].Type ELSE param.Type

ParameterOf(param) ==
    [Name |-> param.Name, In |-> param.In, Required |-> param.Required,
     Type |-> ParamType(param), Description |-> param.Description]

\* the endpoints one operation may yield: one per order of its responses map
EndpointsOf(path, method, op) ==
    {[Path |-> path, Method |-> method, Summary |-> op.Summary,
      Description |-> op.Description,
      Parameters |-> [i \in 1..Len(op.Parameters) |-> ParameterOf(op.Parameters[i])],
      Responses |-> [i \in 1..Len(ord) |-> ResponseOf(ord[i], op.Responses[ord[i]])]]
        : ord \in Orders(DOMAIN op.Responses)}

\* the endpoint sequences a path item may yield: one per order of Operations()
PathEndpoints(path, item) ==
    UNION {SeqProduct([i \in 1..Len(ord) |->
                EndpointsOf(path, ord[i], OperationOf(item, ord[i]))])
            : ord \in Orders(Operations(item))}

\* the endpoint sequences of a document: one per order of the Paths map
DocEndpoints(paths) ==
    UNION {ConcatProduct([i \in 1..Len(ord) |-> PathEndpoints(ord[i], paths[ord[i]])])
            : ord \in Orders(DOMAIN paths)}

OpenAPIPrefix == "openapi-"
HTMLPrefix == "html-"

ParseFailure(kind) == [err |-> kind, doc |-> <<>>]

\* the seconds at which the clock is read for a document: for its identifier,
\* for CreatedAt and for UpdatedAt (time.Now() three times, in this order)
Readings(id, created, updated) == [id |-> id, created |-> created, updated |-> updated]

\* the three readings within one second
Instant(now) == Readings(now, now, now)

\* the readings a call can make before the clock stops when its first one is
\* made at second now: the clock does not go back
ReadingsFrom(now) ==
    {at \in [id : {now}, created : now..MaxClock, updated : now..MaxClock] :
        at.created <= at.updated}

\* the readings of the calls made at any second
AllReadings == UNION {ReadingsFrom(now) : now \in 0..MaxClock}

\* JSONParser.Parse, its readings of the clock being one of ats: the results
\* it may return
JSONParse(j, ats) ==
    IF UnmarshalError(j) # "" THEN {ParseFailure(UnmarshalError(j))}
    ELSE IF OpenAPI(Unmarshal(j)) = <<>> THEN {ParseFailure("notopenapi")}
    ELSE LET info == Unmarshal(j).Info
         IN  {[err |-> "",
               doc |-> <<[ID |-> <<OpenAPIPrefix, at.id>>, URL |-> <<>>,
                          Title |-> info.title,
                          Description |-> info.description,
                          Version |-> info.version,
                          Endpoints |-> eps, CreatedAt |-> at.created,
                          UpdatedAt |-> at.updated]>>]
                : eps \in DocEndpoints(Unmarshal(j).Paths), at \in ats}

\* YAML text is given like JSON text, with what yaml.v3 makes of it:
\*   syntax  - whether yaml.Unmarshal accepts it
\*   nonStringKey - whether some mapping has a key that is not a string
\*                  (yaml.v3 then builds a map[interface{}]interface{})
\*   tree    - the JSON-shaped tree; a version written 2.0 has kind "float"
\*                  (in a mapping of YAML no key comes twice)
YAMLScalar(v) == IF v.kind = "float" THEN [kind |-> "number", s |-> <<>>] ELSE v

\* json.Marshal of a map writes its members sorted by key
RECURSIVE SortedByName(_)
SortedByName(item) ==
    IF item = <<>> THEN <<>>
    ELSE LET first == CHOOSE k \in 1..Len(item) :
                        \A n \in 1..Len(item) : ~StringLess(item[n].name, item[k].name)
         IN  <<item[first]>>
             \o SortedByName([n \in 1..(Len(item) - 1) |->
                                IF n < first THEN item[n] ELSE item[n + 1]])

\* json.Marshal(yamlObj): the JSON text handed to JSONParser.Parse
YAMLToJSON(y) ==
    [syntax |-> TRUE, top |-> y.tree.top,
     openapi |-> YAMLScalar(y.tree.openapi), swagger |-> YAMLScalar(y.tree.swagger),
     info |-> y.tree.info,
     paths |-> [p \in DOMAIN y.tree.paths |-> SortedByName(y.tree.paths[p])]]

\* YAMLParser.Parse, its readings of the clock being one of ats: the results
\* it may return
YAMLParse(y, ats) ==
    IF ~y.syntax THEN {ParseFailure("yaml")}
    ELSE IF y.nonStringKey THEN {ParseFailure("marshal")}
    ELSE JSONParse(YAMLToJSON(y), ats)

-----------------------------------------------------------------------------
(* pkg/parser: the HTML heuristic extractor *)

\* A page is given by what goquery finds in it:
\*   title - Text() of the <title> elements
\*   metas - the <meta name=description> elements: [hasContent, content]
\*   body  - the elements under <body>, in document order, each
\*           [tag, text, rows, codes]: text is Text() of the element, rows
\*           the td cell texts of each tr under it, codes the texts of the
\*           code / .code / pre elements under it

HeadingTags == {"h1", "h2", "h3", "h4", "h5", "h6"}
IsHeading(e) == e.tag \in HeadingTags

RECURSIVE ConcatAll(_)
ConcatAll(ss) == IF ss = <<>> THEN <<>> ELSE Head(ss) \o ConcatAll(Tail(ss))

containsEndpointIndicators(text) ==
    LET lowerText == ToLower(text)
    IN  \/ Contains(lowerText, Chars("api"))
        \/ Contains(lowerText, Chars("endpoint"))
        \/ Contains(lowerText, Chars("route"))
        \/ Contains(lowerText, Chars("request"))
        \/ \E m \in {"get", "post", "put", "delete", "patch"} : Contains(lowerText, Chars(m))
        \/ /\ Contains(text, <<"/">>)
           /\ Contains(text, <<"{">>) \/ Contains(text, <<":">>)

HeadingMethods == <<"GET", "POST", "PUT", "DELETE", "PATCH", "OPTIONS", "HEAD">>

S_Unknown == Chars("Unknown")

\* extractMethodAndPath with a plausible slip: the text is not upper-cased
extractMethodAndPathCaseSensitive(text) ==
    LET hits == {i \in 1..Len(HeadingMethods) :
                    Contains(text, Chars(HeadingMethods[i]))}
        words == Fields(text)
        slashed == {i \in 1..Len(words) : HasPrefix(words[i], <<"/">>)}
    IN  <<IF hits = {} THEN "GET" ELSE HeadingMethods[Min(hits)],
          IF slashed = {} THEN S_Unknown ELSE words[Min(slashed)]>>

\* extractMethodAndPath: <<method, path>>
extractMethodAndPath(text) ==
    LET hits == {i \in 1..Len(HeadingMethods) :
                    Contains(ToUpper(text), Chars(HeadingMethods[i]))}
        words == Fields(text)
        slashed == {i \in 1..Len(words) : HasPrefix(words[i], <<"/">>)}
    IN  <<IF hits = {} THEN "GET" ELSE HeadingMethods[Min(hits)],
          IF slashed = {} THEN S_Unknown ELSE words[Min(slashed)]>>

getStatusCodeDescription(code) ==
    CASE code = Numeral("200") -> "OK"
      [] code = Numeral("201") -> "Created"
      [] code = Numeral("204") -> "No Content"
      [] code = Numeral("400") -> "Bad Request"
      [] code = Numeral("401") -> "Unauthorized"
      [] code = Numeral("403") -> "Forbidden"
      [] code = Numeral("404") -> "Not Found"
      [] code = Numeral("500") -> "Internal Server Error"
      [] OTHER -> "Unknown Status Code"

StatusMatches == <<"200", "201", "400", "401", "403", "404", "500">>

\* s.NextUntil("h1, ..., h6"): the siblings after body[i] up to the next heading
NextUntilHeading(body, i) ==
    LET hs == {k \in (i + 1)..Len(body) : IsHeading(body[k])}
    IN  SubSeq(body, i + 1, IF hs = {} THEN Len(body) ELSE Min(hs) - 1)

\* the parameter of a table row with at least two cells
RowParameter(path, cells) ==
    LET name == cells[1]
        isPath == \/ Contains(path, <<"{">> \o name \o <<"}">>)
                  \/ Contains(path, <<":">> \o name)
    IN  [Name |-> name, In |-> IF isPath THEN "path" ELSE "query",
         Required |-> isPath, Type |-> "string", Description |-> cells[2]]

\* paramSection.Find("table tr").Each: row 0 of the whole selection is skipped
SectionParameters(path, section) ==
    LET rows == ConcatAll([k \in 1..Len(section) |-> section[k].rows])
        rest == SubSeq(rows, 2, Len(rows))
        wide == SelectSeq(rest, LAMBDA r : Len(r) >= 2)
    IN  [k \in 1..Len(wide) |-> RowParameter(path, wide[k])]

\* the first occurrences of a sequence, in order
RECURSIVE FirstOccurrences(_)
FirstOccurrences(q) ==
    IF q = <<>> THEN <<>>
    ELSE LET front == FirstOccurrences(SubSeq(q, 1, Len(q) - 1))
             last == q[Len(q)]
         IN  IF \E k \in 1..Len(front) : front[k] = last THEN front
             ELSE Append(front, last)

\* paramSection.Find("code, .code, pre").Each: the status codes found, each once
SectionResponses(section) ==
    LET codes == ConcatAll([k \in 1..Len(section) |-> section[k].codes])
        found == ConcatAll([k \in 1..Len(codes) |->
                    LET hit == SelectSeq(StatusMatches,
                                    LAMBDA st : Contains(codes[k], Chars(st)))
                    IN  [n \in 1..Len(hit) |-> Sscanf(Chars(hit[n]))]])
        once == FirstOccurrences(found)
    IN  [k \in 1..Len(once) |->
            [StatusCode |-> once[k],
             Description |-> Chars(getStatusCodeDescription(once[k]))]]

\* the endpoint of the heading body[i]; <<>> when the heading is skipped
HeadingEndpoint(body, i) ==
    LET text == TrimSpace(body[i].text)
        mp == extractMethodAndPath(text)
        section == NextUntilHeading(body, i)
    IN  IF text = <<>> \/ ~containsEndpointIndicators(text) THEN <<>>
        ELSE <<[Path |-> mp[2], Method |-> mp[1], Summary |-> text,
                Description |-> IF i < Len(body) THEN body[i + 1].text ELSE <<>>,
                Parameters |-> SectionParameters(mp[2], section),
                Responses |-> SectionResponses(section)]>>

\* the heading pass with a plausible slip: the selector matches every element
HeadingPassEveryElement(body) ==
    ConcatAll([i \in 1..Len(body) |-> HeadingEndpoint(body, i)])

\* Method 1: one endpoint per endpoint-like heading, in document order
HeadingPass(body) ==
    ConcatAll([i \in 1..Len(body) |->
                 IF IsHeading(body[i]) THEN HeadingEndpoint(body, i) ELSE <<>>])

BlockMethods == <<"GET", "POST", "PUT", "DELETE", "PATCH">>

S_http == Chars("http://")
S_https == Chars("https://")

\* the path of a code line: field 1 without scheme and host
CleanPath(field) ==
    LET bare == TrimPrefix(TrimPrefix(field, S_http), S_https)
        idx == Index(bare, <<"/">>)
    IN  IF idx > 0 THEN SliceFrom(bare, idx) ELSE bare

\* the endpoints a code block proposes for one method, line by line
BlockMethodCandidates(text, method) ==
    LET m == Chars(method)
        lines == Split(text, "\n")
        hit == SelectSeq(lines, LAMBDA l : Contains(l, m) /\ Len(Fields(l)) >= 2)
    IN  IF Contains(text, m \o <<" ">>) \/ Contains(text, m \o <<"\t">>)
        THEN [k \in 1..Len(hit) |->
                [Path |-> CleanPath(Fields(hit[k])[2]), Method |-> method,
                 Summary |-> hit[k], Description |-> <<>>, Parameters |-> <<>>,
                 Responses |-> <<[StatusCode |-> Numeral("200"), Description |-> Chars("OK")]>>]]
        ELSE <<>>

\* doc.Find("pre, code, .code"): the texts of the matched elements
CodeBlocks(body) ==
    ConcatAll([k \in 1..Len(body) |->
                 (IF body[k].tag \in {"pre", "code"} THEN <<body[k].text>> ELSE <<>>)
                 \o body[k].codes])

BlockCandidates(body) ==
    LET blocks == CodeBlocks(body)
    IN  ConcatAll([b \in 1..Len(blocks) |->
            ConcatAll([n \in 1..Len(BlockMethods) |->
                BlockMethodCandidates(blocks[b], BlockMethods[n])])])

SameEndpoint(a, b) == a.Path = b.Path /\ a.Method = b.Method

\* Method 2: a candidate is appended unless its (path, method) is already there
RECURSIVE AppendNew(_, _)
AppendNew(eps, cands) ==
    IF cands = <<>> THEN eps
    ELSE AppendNew(IF \E k \in 1..Len(eps) : SameEndpoint(eps[k], Head(cands))
                   THEN eps ELSE Append(eps, Head(cands)),
                   Tail(cands))

\* len(description) > 200: a number of bytes
DescriptionLimit == 200
S_ellipsis == Chars("...")

\* FirstText with a plausible change: elements without text are passed over
FirstNonEmptyText(body, tag) ==
    LET at == {k \in 1..Len(body) : body[k].tag = tag /\ body[k].text # <<>>}
    IN  IF at = {} THEN <<>> ELSE body[Min(at)].text

\* text of the first element with the tag; "" when there is none
FirstText(body, tag) ==
    LET at == {k \in 1..Len(body) : body[k].tag = tag}
    IN  IF at = {} THEN <<>> ELSE body[Min(at)].text

PageDescription(page) ==
    LET withContent == SelectSeq(page.metas, LAMBDA m : m.hasContent)
        meta == IF withContent = <<>> THEN <<>> ELSE withContent[Len(withContent)].content
        para == FirstText(page.body, "p")
        found == IF para = <<>> THEN FirstText(page.body, "div") ELSE para
    IN  IF meta # <<>> THEN meta
        ELSE IF ByteLen(found) > DescriptionLimit
             THEN Slice(found, DescriptionLimit - 3) \o S_ellipsis
             ELSE found

S_UnknownAPI == Chars("Unknown API")

\* goquery.NewDocumentFromReader(strings.NewReader(string(content))): whether
\* it returns a tree.  It returns the error of html.Parse, which reads from
\* memory here and builds a tree for any text, well-formed or not, that it
\* reads to its end; the releases of golang.org/x/net/html that limit the
\* stack of open elements stop with an error at markup nested deeper than
\* that limit (page.deep), the releases before them build its tree as well.
\* The release is the one the build resolves (Dockerfile: golang:latest, the
\* newest gin and gorm), so both outcomes are followed.
NewDocumentFromReader(page) == IF page.deep THEN {FALSE, TRUE} ELSE {TRUE}

\* HTMLParser.Parse with a plausible change: a page in which no endpoint was
\* found is reported as an error
HTMLParseEndpointsRequired(page, ats) ==
    LET title == IF page.title = <<>> THEN S_UnknownAPI ELSE page.title
        description == PageDescription(page)
        endpoints == AppendNew(HeadingPass(page.body), BlockCandidates(page.body))
    IN  UNION {IF ~built \/ endpoints = <<>> THEN {ParseFailure("html")}
               ELSE {[err |-> "",
                      doc |-> <<[ID |-> <<HTMLPrefix, at.id>>, URL |-> <<>>,
                                 Title |-> title, Description |-> description,
                                 Version |-> S_Unknown, Endpoints |-> endpoints,
                                 CreatedAt |-> at.created, UpdatedAt |-> at.updated]>>]
                        : at \in ats}
                : built \in NewDocumentFromReader(page)}

\* HTMLParser.Parse, its readings of the clock being one of ats: the results
\* it may return.  An error of the HTML library is returned wrapped, without
\* a document and before the clock is read.
HTMLParse(page, ats) ==
    LET title == IF page.title = <<>> THEN S_UnknownAPI ELSE page.title
        description == PageDescription(page)
        endpoints == AppendNew(HeadingPass(page.body), BlockCandidates(page.body))
    IN  UNION {IF ~built THEN {ParseFailure("html")}
               ELSE {[err |-> "",
                      doc |-> <<[ID |-> <<HTMLPrefix, at.id>>, URL |-> <<>>,
                                 Title |-> title, Description |-> description,
                                 Version |-> S_Unknown, Endpoints |-> endpoints,
                                 CreatedAt |-> at.created, UpdatedAt |-> at.updated]>>]
                        : at \in ats}
                : built \in NewDocumentFromReader(page)}

-----------------------------------------------------------------------------
(* Inputs of the parsers *)

Absent == [kind |-> "absent", s |-> <<>>]
Null == [kind |-> "null", s |-> <<>>]
Number == [kind |-> "number", s |-> <<>>]
Float == [kind |-> "float", s |-> <<>>]
Str(s) == [kind |-> "string", s |-> Chars(s)]

TestInfo == [deep |-> FALSE, title |-> Chars("Test API"), description |-> Chars("API for testing"),
             version |-> Chars("1.0.0")]

Word(s) == [kind |-> "string", s |-> s]
NoWord == [kind |-> "absent", s |-> ""]

Bool(b) == [kind |-> "bool", b |-> b]
NoBool == [kind |-> "absent", b |-> FALSE]

Schema(type) == [kind |-> "object", type |-> type]
NoSchema == [kind |-> "absent", type |-> NoWord]
NullSchema == [kind |-> "null", type |-> NoWord]

Params(elems) == [kind |-> "array", elems |-> elems]
NoParams == [kind |-> "absent", elems |-> <<>>]
NullParams == [kind |-> "null", elems |-> <<>>]

Resps(entries) == [kind |-> "object", entries |-> entries]
NoResps == [kind |-> "absent", entries |-> << >>]
NullResps == [kind |-> "null", entries |-> << >>]

Described(text) == [kind |-> "object", desc |-> Str(text)]

PlainOp == [summary |-> Str("Get all users"), description |-> Str("Returns users"),
            parameters |-> NoParams, responses |-> NoResps]

Object(op) == [kind |-> "object", op |-> op]
NullMember == [kind |-> "null", op |-> PlainOp]

Member(name, value) == [name |-> name, kind |-> value.kind, op |-> value.op]

P_users == Chars("/users")
P_pets == Chars("/pets")

JSONObject(openapi, swagger, paths) ==
    [syntax |-> TRUE, top |-> "object", openapi |-> openapi, swagger |-> swagger,
     info |-> TestInfo, paths |-> paths]

OnePath(item) == [p \in {P_users} |-> item]

OneGet(op) == OnePath(<<Member(Chars("get"), Object(op))>>)

\* version fields, top-level kinds and syntax
VersionValues == {Absent, Null, Number, Str(""), Str("3.0.0")}

VersionInputs ==
    {[syntax |-> sx, top |-> top, openapi |-> o, swagger |-> w, info |-> TestInfo,
      paths |-> OneGet(PlainOp)]
        : sx \in BOOLEAN, top \in {"object", "null", "array"},
          o \in VersionValues, w \in VersionValues}

\* the path item whose members are those of the assignment f, sorted by name
ItemOf(f) == SortedByName(CHOOSE ord \in Orders({Member(k, f[k]) : k \in DOMAIN f}) : TRUE)

\* path items: every assignment of an operation or null to some member names
ItemsOver(keys) ==
    {ItemOf(f) : f \in UNION {[ks -> {Object(PlainOp), NullMember}] : ks \in SUBSET keys}}

CommonKeys == {Chars("get"), Chars("post"), Chars("trace")}

\* post written with the long s
S_longPost == <<"p", "o", "U+017F", "t">>

AllKeys == {Chars("get"), Chars("post"), Chars("put"), Chars("delete"), Chars("options"),
            Chars("head"), Chars("patch"), Chars("trace"), Chars("parameters"),
            Chars("GET"), Chars("gEt"), Chars("PUT"), Chars("Post"), Chars("PATCH"),
            S_longPost}

\* two operations of which the second leaves out members of the first
LimitParameter ==
    [name |-> Str("limit"), in |-> Word("query"), description |-> Str("Maximum"),
     required |-> Bool(TRUE), schema |-> Schema(Word("integer")), type |-> NoWord]

BareParameter(name) ==
    [name |-> Str(name), in |-> NoWord, description |-> Absent, required |-> NoBool,
     schema |-> NoSchema, type |-> Word("string")]

FirstOp ==
    [summary |-> Str("A"), description |-> Str("from get"),
     parameters |-> Params(<<LimitParameter, BareParameter("page")>>),
     responses |-> Resps([k \in {Chars("200")} |-> Described("OK")])]

SecondOp ==
    [summary |-> Str("B"), description |-> Absent,
     parameters |-> Params(<<BareParameter("q")>>),
     responses |-> Resps([k \in {Chars("404")} |-> Described("Not found")])]

\* path items that name the field Get up to three times
RepeatedItems ==
    {item \in SeqsUpTo({Member(k, v) : k \in {Chars("get"), Chars("GET")},
                                        v \in {Object(FirstOp), Object(SecondOp), NullMember}},
                       3) : Len(item) >= 2}

PathInputs ==
    {JSONObject(Str("3.0.0"), Absent, paths) :
        paths \in UNION {[ps -> ItemsOver(CommonKeys)] : ps \in SUBSET {P_users, P_pets}}}
    \cup
    {JSONObject(Absent, Str("2.0"), OnePath(ItemOf([k \in ks |-> Object(PlainOp)]))) :
        ks \in {x \in SUBSET AllKeys : Cardinality(x) \in 1..2}}
    \cup
    {JSONObject(Str("3.0.0"), Absent, OnePath(item)) : item \in RepeatedItems}

\* response maps
ResponseKeys == {Chars("200"), Chars("404"), S_default, Chars("2XX"), Chars("200abc"),
                 Chars("abc"), <<>>, <<"\f", "2", "0", "1">>, Chars("2147483648"),
                 Chars("99999999999999999999")}

ResponseObjects ==
    {[kind |-> "object", desc |-> Str("Successful operation")],
     [kind |-> "object", desc |-> Absent],
     [kind |-> "other", desc |-> Absent]}

ResponseInputs ==
    {JSONObject(Str("3.0.0"), Absent, OneGet([PlainOp EXCEPT !.responses = Resps(rs)])) :
        rs \in UNION {[ks -> ResponseObjects] :
                        ks \in {x \in SUBSET ResponseKeys : Cardinality(x) \in 1..2}}}

\* parameters
SchemaValues == {NoSchema, NullSchema, Schema(NoWord), Schema(Word("integer"))}

ParameterValues ==
    {[name |-> Str("limit"), in |-> Word("query"), description |-> Str("Maximum"),
      required |-> Bool(FALSE), schema |-> sc, type |-> ty]
        : sc \in SchemaValues, ty \in {NoWord, Word("string")}}

ParameterInputs ==
    {JSONObject(Str("3.0.0"), Absent, OneGet([PlainOp EXCEPT !.parameters = Params(ps)])) :
        ps \in SeqsUpTo(ParameterValues, 2)}

TestParameter(name, in, description, required, type) ==
    [name |-> Str(name), in |-> Word(in), description |-> Str(description),
     required |-> Bool(required), schema |-> Schema(Word(type)), type |-> NoWord]

TestResponses(first, description) ==
    Resps([k \in {Chars(first), Chars("400")} |->
            IF k = Chars("400") THEN Described("Bad request") ELSE Described(description)])

\* the operations of jsonTestData and of yamlTestData
GetUsers ==
    [summary |-> Str("Get all users"), description |-> Str("Returns a list of users"),
     parameters |-> Params(<<TestParameter("limit", "query",
                                "Maximum number of users to return", FALSE, "integer")>>),
     responses |-> TestResponses("200", "Successful operation")]

CreateUser ==
    [summary |-> Str("Create a user"), description |-> Str("Creates a new user"),
     parameters |-> Params(<<TestParameter("name", "body", "User name", TRUE, "string")>>),
     responses |-> TestResponses("201", "User created")]

\* what jsonTestData and yamlTestData decode into
UsersTree ==
    JSONObject(Str("3.0.0"), Absent,
        OnePath(<<Member(Chars("get"), Object(GetUsers)),
                  Member(Chars("post"), Object(CreateUser))>>))

JSONInputs ==
    VersionInputs \cup PathInputs \cup ResponseInputs \cup ParameterInputs \cup {UsersTree}

\* YAML texts: the version as a string or as a float, keys that are no strings
YAMLInputs ==
    {[syntax |-> sx, nonStringKey |-> nk,
      tree |-> [syntax |-> TRUE, top |-> top, openapi |-> o, swagger |-> w,
                info |-> TestInfo, paths |-> OneGet(PlainOp)]]
        : sx \in BOOLEAN, nk \in BOOLEAN, top \in {"object", "null", "string"},
          o \in {Absent, Str("3.0.0")}, w \in {Absent, Float, Str("2.0"), Str("")}}
    \cup
    \* mappings with the keys get and GET, in either order
    {[syntax |-> TRUE, nonStringKey |-> FALSE,
      tree |-> JSONObject(Str("3.0.0"), Absent, OnePath(item))]
        : item \in {i \in RepeatedItems : Len(i) = 2 /\ i[1].name # i[2].name}}
    \cup
    {[syntax |-> TRUE, nonStringKey |-> FALSE, tree |-> UsersTree]}

Element(tag, text, rows, codes) == [tag |-> tag, text |-> text, rows |-> rows, codes |-> codes]

HTMLElements ==
    {Element("h3", Chars("GET /u"), <<>>, <<>>),
     Element("h3", Chars(" POST /u "), <<>>, <<>>),
     Element("h2", Chars("API"), <<>>, <<>>),
     Element("h4", Chars("Params"), <<>>, <<>>),
     Element("p", Chars("Returns users."), <<>>, <<>>),
     Element("table", Chars("Name limit Max"), << <<>>, <<Chars("limit"), Chars("Max")>> >>, <<>>),
     Element("pre", Chars("GET /u\nPOST http://h/v"), <<>>, <<>>),
     Element("div", Chars("200 or 400"), <<>>, <<Chars("200 or 400")>>)}

\* the page of the parser test (htmlTestData): th rows have no td cell, the
\* status lists are ul/li without any code element
TestParameters(name, description) ==
    Element("table", Chars("Name Description ") \o name \o <<" ">> \o description,
            << <<>>, <<name, description>> >>, <<>>)

TestPage ==
    [deep |-> FALSE, title |-> Chars("Test API Documentation"),
     metas |-> <<[hasContent |-> TRUE, content |-> Chars("API documentation for testing")]>>,
     body |-> <<Element("h1", Chars("Test API"), <<>>, <<>>),
                Element("p", Chars("This is a test API for demonstration purposes."), <<>>, <<>>),
                Element("h2", Chars("API Endpoints"), <<>>, <<>>),
                Element("h3", Chars("GET /users"), <<>>, <<>>),
                Element("p", Chars("Returns a list of users."), <<>>, <<>>),
                Element("h4", Chars("Parameters"), <<>>, <<>>),
                TestParameters(Chars("limit"), Chars("Maximum number of users to return")),
                Element("h4", Chars("Responses"), <<>>, <<>>),
                Element("ul", Chars("200: Successful operation 400: Bad request"), <<>>, <<>>),
                Element("h3", Chars("POST /users"), <<>>, <<>>),
                Element("p", Chars("Creates a new user."), <<>>, <<>>),
                Element("h4", Chars("Parameters"), <<>>, <<>>),
                TestParameters(Chars("name"), Chars("User name")),
                Element("h4", Chars("Responses"), <<>>, <<>>),
                Element("ul", Chars("201: User created 400: Bad request"), <<>>, <<>>)>>]

\* a text one character longer than the description limit
LongText == [i \in 1..(DescriptionLimit + 1) |-> "x"]

\* texts of two-byte letters: one of 101 letters in 202 bytes, and one of 199
\* letters in 202 bytes whose byte 197 is the first half of a letter
AccentedText == [i \in 1..((DescriptionLimit \div 2) + 1) |-> "U+00E9"]
MixedText ==
    [i \in 1..(DescriptionLimit - 1) |->
        IF i <= DescriptionLimit - 4 THEN "a" ELSE "U+00E9"]

\* pages without headings and code blocks: what the description is taken from
MetaElements ==
    {<<>>,
     <<[hasContent |-> FALSE, content |-> <<>>]>>,
     <<[hasContent |-> TRUE, content |-> <<>>]>>,
     <<[hasContent |-> TRUE, content |-> Chars("About")]>>,
     <<[hasContent |-> TRUE, content |-> LongText]>>,
     <<[hasContent |-> TRUE, content |-> Chars("About")],
       [hasContent |-> TRUE, content |-> Chars("More")]>>}

TextElements ==
    {Element("p", <<>>, <<>>, <<>>),
     Element("p", Chars("Use GET /u"), <<>>, <<>>),
     Element("p", LongText, <<>>, <<>>),
     Element("p", AccentedText, <<>>, <<>>),
     Element("div", <<>>, <<>>, <<>>),
     Element("div", Chars("Box"), <<>>, <<>>),
     Element("div", LongText, <<>>, <<>>),
     Element("div", MixedText, <<>>, <<>>)}

TextPages ==
    {[deep |-> FALSE, title |-> <<>>, metas |-> m, body |-> b] :
        m \in MetaElements, b \in SeqsUpTo(TextElements, 2)}

\* sections of an endpoint: a heading naming two verbs and a path parameter,
\* a table whose header row is made of th cells, one whose header row is made
\* of td cells, and a code block requesting a URL without a path
SectionElements ==
    {Element("h3", Chars("Delete or put /x/:id"), <<>>, <<>>),
     Element("table", Chars("Name limit Max"), << <<>>, <<Chars("limit"), Chars("Max")>> >>, <<>>),
     Element("table", Chars("Name Description id Key"),
             << <<Chars("Name"), Chars("Description")>>, <<Chars("id"), Chars("Key")>> >>, <<>>),
     Element("pre", Chars("GET http://h"), <<>>, <<>>)}

SectionPages ==
    {[deep |-> FALSE, title |-> <<>>, metas |-> <<>>, body |-> b] : b \in SeqsUpTo(SectionElements, MaxElems)}

\* headings with letters outside ASCII: a long s, a dotless i, a dotted I
CaseElements ==
    {Element("h3", <<"p", "o", "U+017F", "t", " ", "/", "x", "/", ":", "i", "d">>, <<>>, <<>>),
     Element("h3", <<"o", "p", "t", "U+0131", "o", "n", "s", " ", "/", "x", "/", ":", "i", "d">>,
             <<>>, <<>>),
     Element("h2", <<"A", "P", "U+0130", " ", "l", "i", "s", "t">>, <<>>, <<>>)}

CasePages ==
    {[deep |-> FALSE, title |-> <<>>, metas |-> <<>>, body |-> b] : b \in SeqsUpTo(CaseElements, 2)}

\* a heading whose path parameter ends in a two-byte letter, and tables
\* whose rows name the parameter, and the parameter cut inside that letter
CutElements ==
    {Element("h3", <<"G", "E", "T", " ", "/", "x", "/", ":", "a", "U+00E9">>, <<>>, <<>>),
     Element("table", <<"N", " ", "a", "0xC3", " ", "d">>,
             << <<>>, << <<"a", "0xC3">>, <<"d">> >> >>, <<>>),
     Element("table", <<"N", " ", "a", "U+00E9", " ", "d">>,
             << <<>>, << <<"a", "U+00E9">>, <<"d">> >> >>, <<>>)}

CutPages ==
    {[deep |-> FALSE, title |-> <<>>, metas |-> <<>>, body |-> b] : b \in SeqsUpTo(CutElements, 2)}

\* pages whose body lies within a chain of more than 512 nested <span>
\* elements: to a library that builds the tree, the elements the selectors
\* match, their siblings and their texts are those of the page without the
\* chain
DeepPages == {[page EXCEPT !.deep = TRUE] : page \in CasePages \cup {TestPage}}

HTMLPages ==
    {[deep |-> FALSE, title |-> t, metas |-> <<>>, body |-> b] :
        t \in {<<>>, Chars("Test API Documentation")},
        b \in SeqsUpTo(HTMLElements, MaxElems)}
    \cup TextPages \cup {TestPage} \cup SectionPages \cup CasePages \cup CutPages
    \cup DeepPages

NoJSON == [syntax |-> FALSE, top |-> "object", openapi |-> Absent, swagger |-> Absent,
           info |-> TestInfo, paths |-> << >>]
NoYAML == [syntax |-> FALSE, nonStringKey |-> FALSE, tree |-> NoJSON]
NoPage == [deep |-> FALSE, title |-> <<>>, metas |-> <<>>, body |-> <<>>]

ParserInputs ==
    {[parser |-> "JSON", json |-> j, yaml |-> NoYAML, page |-> NoPage] : j \in JSONInputs}
    \cup {[parser |-> "YAML", json |-> NoJSON, yaml |-> y, page |-> NoPage] : y \in YAMLInputs}
    \cup {[parser |-> "HTML", json |-> NoJSON, yaml |-> NoYAML, page |-> h] : h \in HTMLPages}

NoInput == [parser |-> "none", json |-> NoJSON, yaml |-> NoYAML, page |-> NoPage]

-----------------------------------------------------------------------------
(* internal/scraper: ScrapeAPIDoc *)

\* What the server answers to http.Get(url):
\*   netErr - the request failed in transport
\*   status - the HTTP status code
\*   contentType - the Content-Type header ("" when absent)
\*   body   - the bytes, with what each library makes of them:
\*            [bytes, json, yaml, page]

S_swagger == Chars("swagger")
S_openapi == Chars("openapi")
S_apidocs == Chars("api-docs")
S_api == Chars("api")
S_doc == Chars("doc")
S_reference == Chars("reference")

isSwaggerURL(url) ==
    \/ Contains(url, S_swagger)
    \/ Contains(url, S_openapi)
    \/ Contains(url, S_apidocs)

isRESTDocURL(url) ==
    /\ Contains(url, S_api)
    /\ Contains(url, S_doc) \/ Contains(url, S_reference)

S_json == Chars("json")
S_yaml == Chars("yaml")
S_yml == Chars("yml")
S_html == Chars("html")

\* the parser scrapeSwaggerDoc creates
SwaggerParser(contentType, bytes) ==
    IF Contains(contentType, S_json) THEN "JSON"
    ELSE IF Contains(contentType, S_yaml) \/ Contains(contentType, S_yml) THEN "YAML"
    ELSE IF isJSON(bytes) THEN "JSON"
    ELSE IF isYAML(bytes) THEN "YAML"
    ELSE "JSON"

\* the parser scrapeGenericRESTDoc creates
RESTParser(contentType) ==
    IF Contains(contentType, S_html) THEN "HTML"
    ELSE IF Contains(contentType, S_json) THEN "JSON"
    ELSE IF Contains(contentType, S_yaml) \/ Contains(contentType, S_yml) THEN "YAML"
    ELSE "HTML"

\* the parser scrapeGenericDoc creates
GenericParser(contentType, bytes) ==
    IF Contains(contentType, S_html) THEN "HTML"
    ELSE IF Contains(contentType, S_json) THEN "JSON"
    ELSE IF Contains(contentType, S_yaml) \/ Contains(contentType, S_yml) THEN "YAML"
    ELSE IF isJSON(bytes) THEN "JSON"
    ELSE IF isYAML(bytes) THEN "YAML"
    ELSE "HTML"

\* p.Parse(content) with a plausible slip: a failed parse falls back to the
\* HTML extractor
ParseWithHTMLFallback(parser, body, ats) ==
    UNION {IF r.err # "" THEN HTMLParse(body.page, ats) ELSE {r} :
            r \in CASE parser = "JSON" -> JSONParse(body.json, ats)
                     [] parser = "YAML" -> YAMLParse(body.yaml, ats)
                     [] parser = "HTML" -> HTMLParse(body.page, ats)}

\* p.Parse(content)
ParseWith(parser, body, ats) ==
    CASE parser = "JSON" -> JSONParse(body.json, ats)
      [] parser = "YAML" -> YAMLParse(body.yaml, ats)
      [] parser = "HTML" -> HTMLParse(body.page, ats)

\* the status check with a plausible change: every 2xx status passes
StatusSuccess(status) == status \in 200..299

\* resp.StatusCode != http.StatusOK is a failure
StatusOK(status) == status = 200

\* what the scrape saw of the answer
Fetched(resp) == [netErr |-> resp.netErr, status |-> resp.status, readErr |-> resp.readErr]

\* a scrape that ends before a parser is created: cause is the error of the
\* library or parser, code the status code the error message carries, wrapped
\* tells whether the cause is returned inside a new error
FetchFailure(url, route, resp, kind, code, wrapped) ==
    [url |-> url, route |-> route, fetched |-> Fetched(resp), hint |-> <<>>,
     bytes |-> <<>>, strategy |-> "", err |-> kind, cause |-> kind, errCode |-> code,
     wrapped |-> wrapped, doc |-> <<>>]

\* one of the three scrape functions, which differ in the parser they create.
\* The clock is read at.id in p.Parse for the identifier (parser.go:109, 280),
\* at.created and at.updated after it (scraper.go:88, 89 and the like); what
\* p.Parse read for its own CreatedAt and UpdatedAt is overwritten.
ScrapeWith(url, route, parser, resp, at) ==
    IF resp.netErr THEN {FetchFailure(url, route, resp, "transport", 0, FALSE)}
    ELSE IF ~StatusOK(resp.status)
         THEN {FetchFailure(url, route, resp, "status", resp.status, FALSE)}
    ELSE IF resp.readErr THEN {FetchFailure(url, route, resp, "read", 0, TRUE)}
    ELSE {[url |-> url, route |-> route, fetched |-> Fetched(resp),
           hint |-> resp.contentType,
           bytes |-> resp.body.bytes, strategy |-> parser,
           err |-> IF r.err # "" THEN "parse" ELSE "", cause |-> r.err,
           errCode |-> 0, wrapped |-> r.err # "",
           doc |-> IF r.err # "" THEN <<>>
                   ELSE <<[r.doc[1] EXCEPT !.URL = url, !.CreatedAt = at.created,
                                           !.UpdatedAt = at.updated]>>]
            : r \in ParseWith(parser, resp.body, {Instant(at.id)})}

scrapeSwaggerDoc(url, resp, at) ==
    ScrapeWith(url, "swagger", SwaggerParser(resp.contentType, resp.body.bytes), resp, at)

scrapeGenericRESTDoc(url, resp, at) ==
    ScrapeWith(url, "rest", RESTParser(resp.contentType), resp, at)

scrapeGenericDoc(url, resp, at) ==
    ScrapeWith(url, "generic", GenericParser(resp.contentType, resp.body.bytes), resp, at)

\* ScrapeAPIDoc with a plausible slip: the two URL tests are in the other order
ScrapeAPIDocRESTFirst(url, resp, at) ==
    IF isRESTDocURL(url) THEN scrapeGenericRESTDoc(url, resp, at)
    ELSE IF isSwaggerURL(url) THEN scrapeSwaggerDoc(url, resp, at)
    ELSE scrapeGenericDoc(url, resp, at)

ScrapeAPIDoc(url, resp, at) ==
    IF isSwaggerURL(url) THEN scrapeSwaggerDoc(url, resp, at)
    ELSE IF isRESTDocURL(url) THEN scrapeGenericRESTDoc(url, resp, at)
    ELSE scrapeGenericDoc(url, resp, at)

NoAnswer == [netErr |-> FALSE, status |-> 0, readErr |-> FALSE]
NoScrape == FetchFailure(<<>>, "", NoAnswer, "", 0, FALSE)

(* Inputs of the scraper *)

URLs == {Chars("http://h/swagger"), Chars("http://h/api/docs"), Chars("http://h/guide"),
         Chars("http://h/api-docs"), Chars("http://h/api/reference"), Chars("http://h/api")}

ContentTypes == {Chars("application/json"), Chars("application/x-yaml"), Chars("text/yml"),
                 Chars("text/html; charset=utf-8"), Chars("text/plain"), <<>>}

NoInfo == [deep |-> FALSE, title |-> <<>>, description |-> <<>>, version |-> <<>>]

Tree(top, openapi) ==
    [syntax |-> TRUE, top |-> top, openapi |-> openapi, swagger |-> Absent,
     info |-> NoInfo, paths |-> << >>]

YAMLOf(tree) == [syntax |-> TRUE, nonStringKey |-> FALSE, tree |-> tree]

\* the operation of the text {}
EmptyOp == [summary |-> Absent, description |-> Absent, parameters |-> NoParams,
            responses |-> NoResps]

InfoTree ==
    [syntax |-> TRUE, top |-> "object", openapi |-> Str("3"), swagger |-> Absent,
     info |-> [deep |-> FALSE, title |-> Chars("T"), description |-> Chars("D"), version |-> <<>>],
     paths |-> [p \in {Chars("/u")} |-> <<Member(Chars("get"), Object(EmptyOp))>>]]

Bodies ==
    {\* an OpenAPI document in JSON, which is YAML as well
     [bytes |-> Chars("{\"openapi\":\"3\"}"), json |-> Tree("object", Str("3")),
      yaml |-> YAMLOf(Tree("object", Str("3"))), page |-> NoPage],
     \* an OpenAPI document in JSON with a title, a description and one path
     [bytes |-> Chars("{\"openapi\":\"3\",\"info\":{\"title\":\"T\",\"description\":\"D\"},"
                      \o "\"paths\":{\"/u\":{\"get\":{}}}}"),
      json |-> InfoTree, yaml |-> YAMLOf(InfoTree), page |-> NoPage],
     \* an OpenAPI document in YAML
     [bytes |-> Chars("openapi: 3.0.0"), json |-> NoJSON,
      yaml |-> YAMLOf(Tree("object", Str("3.0.0"))), page |-> NoPage],
     \* a documentation page; to YAML it is one plain scalar
     [bytes |-> Chars("<h1>GET /u</h1>"), json |-> NoJSON,
      yaml |-> YAMLOf(Tree("string", Absent)),
      page |-> [deep |-> FALSE, title |-> <<>>, metas |-> <<>>,
                body |-> <<Element("h1", Chars("GET /u"), <<>>, <<>>)>>]],
     \* plain text with a colon: a YAML mapping without a version
     [bytes |-> Chars("see: /api"), json |-> NoJSON,
      yaml |-> YAMLOf(Tree("object", Absent)), page |-> NoPage],
     \* a JSON array
     [bytes |-> Chars("[1]"), json |-> Tree("array", Absent),
      yaml |-> YAMLOf(Tree("array", Absent)), page |-> NoPage]}

NoBody == [bytes |-> <<>>, json |-> NoJSON, yaml |-> NoYAML, page |-> NoPage]

Responses ==
    {[netErr |-> TRUE, status |-> 0, readErr |-> FALSE, contentType |-> <<>>, body |-> NoBody]}
    \cup {[netErr |-> FALSE, status |-> st, readErr |-> FALSE, contentType |-> <<>>,
           body |-> NoBody] : st \in {201, 204, 404, 500}}
    \cup {[netErr |-> FALSE, status |-> 200, readErr |-> TRUE, contentType |-> <<>>,
           body |-> NoBody]}
    \cup {[netErr |-> FALSE, status |-> 200, readErr |-> FALSE, contentType |-> ct, body |-> b]
            : ct \in ContentTypes, b \in Bodies}

-----------------------------------------------------------------------------
(* Documents given in several forms, for calls of the extraction core *)

\* GET and POST on /users, each with a summary only
PairTree ==
    JSONObject(Str("3.0.0"), Absent,
        OnePath(<<Member(Chars("get"), Object([EmptyOp EXCEPT !.summary = Str("Get all users")])),
                  Member(Chars("post"), Object([EmptyOp EXCEPT !.summary = Str("Create a user")]))>>))

\* one operation with one response
SingleTree ==
    JSONObject(Str("3.0.0"), Absent,
        OneGet([EmptyOp EXCEPT !.summary = Str("Get all users"),
                               !.responses = Resps([k \in {Chars("200")} |->
                                                Described("Successful operation")])]))

\* Each text is given by what the three libraries make of it: PairTree written
\* in JSON (to yaml.v3 a flow mapping) and in YAML, SingleTree written in JSON
\* and in YAML with the status key unquoted (200:), which yaml.v3 reads as an
\* integer key, and a documentation page.
Documents ==
    <<[json |-> PairTree, yaml |-> YAMLOf(PairTree), page |-> NoPage],
      [json |-> NoJSON, yaml |-> YAMLOf(PairTree), page |-> NoPage],
      [json |-> SingleTree, yaml |-> YAMLOf(SingleTree), page |-> NoPage],
      [json |-> NoJSON,
       yaml |-> [syntax |-> TRUE, nonStringKey |-> TRUE, tree |-> SingleTree],
       page |-> NoPage],
      [json |-> NoJSON, yaml |-> YAMLOf(Tree("string", Absent)),
       page |-> [deep |-> FALSE, title |-> <<>>, metas |-> <<>>,
                 body |-> <<Element("h1", Chars("GET /u"), <<>>, <<>>)>>]]>>

\* <<j, y>>: text j is the JSON form and text y the YAML form of one document
FormPairs == {<<1, 2>>, <<3, 4>>}

Parsers == {"JSON", "YAML", "HTML"}

\* the content a call works on: the parameter of its own invocation
CallContent(cs, c) == Documents[cs[c].input]

\* the call returns an error before it reads the clock
FailsEarly(parser, body) == \A r \in ParseWith(parser, body, {Instant(0)}) : r.err # ""

-----------------------------------------------------------------------------
(* internal/storage and cmd/api: the submission handler *)

\* SaveAPIDoc with a plausible slip: the identifier is not looked at
SaveAPIDocUnchecked(docs, doc) ==
    [err |-> "",
     docs |-> [id \in DOMAIN docs \cup {doc.ID} |->
                   IF id = doc.ID THEN doc ELSE docs[id]]]

\* MemoryStorage.SaveAPIDoc: [err, docs]
SaveAPIDoc(docs, doc) ==
    IF doc.ID = <<>> THEN [err |-> "emptyid", docs |-> docs]
    ELSE [err |-> "",
          docs |-> [id \in DOMAIN docs \cup {doc.ID} |->
                        IF id = doc.ID THEN doc ELSE docs[id]]]

\* MemoryStorage.GetAPIDoc: [err, doc]
GetAPIDoc(docs, id) ==
    IF id \in DOMAIN docs THEN [err |-> "", doc |-> <<docs[id]>>]
    ELSE [err |-> "notfound", doc |-> <<>>]

\* MemoryStorage.GetAllAPIDocs: the documents in the order the map is ranged
\* over, which the language leaves open
GetAllAPIDocs(docs) ==
    {[k \in 1..Len(o) |-> docs[o[k]]] : o \in Orders(DOMAIN docs)}

\* what an operation of the store, or a page listing documents, answered
Got(op, id, err, docs) == [op |-> op, id |-> id, err |-> err, docs |-> docs]

\* the description override with a plausible slip: an empty description of
\* the request overrides as well
AssembleAlways(doc, request) == [doc EXCEPT !.Description = request.description]

\* "Set description from request if provided"
Assemble(doc, request) ==
    IF request.description # <<>>
    THEN [doc EXCEPT !.Description = request.description] ELSE doc

\* an answer: the HTTP status, the request it answers, the error it reports
\* ("" when none) and the document it carries or redirects to
Reply(status, request, error, doc) ==
    [status |-> status, request |-> request, error |-> error, doc |-> doc]

\* the handlers that take submissions: submitAPIDoc of cmd/api ("api"),
\* GinHandler.handleScrape ("gin") and Handler.handleScrape of net/http
\* ("http")
Handlers == {"api", "gin", "http"}

\* the handlers of the UI with a plausible slip: the page is fetched before
\* the rate limiter is asked
StepsFetchFirst(handler) ==
    IF handler = "api" THEN <<"fetch", "created", "updated", "save", "reply">>
    ELSE <<"fetch", "created", "updated", "allow", "save", "reply">>

\* what a handler does, once the request is bound and has a URL, at the
\* places where it waits or works on what the requests share: limiter.Allow
\* (under the mutex of the limiter), the answer of the documentation server
\* and the clock read for the identifier, the clock read for CreatedAt, the
\* one for UpdatedAt, SaveAPIDoc (under the mutex of the store), the answer
Steps(handler) ==
    IF handler = "api" THEN <<"fetch", "created", "updated", "save", "reply">>
    ELSE <<"allow", "fetch", "created", "updated", "save", "reply">>

\* the step a submission in progress is at
StepOf(f) == IF f.at < 1 THEN "idle" ELSE Steps(f.handler)[f.at]

\* the submission goes on with its next step
Advance(f) == [f EXCEPT !.at = f.at + 1]

\* the submission returns at an error: the answer is all that is left to do
Fail(f, error) == [f EXCEPT !.at = Len(Steps(f.handler)), !.error = error]

\* the status of an answer: the JSON handler answers 400 and 500 at errors
\* and 200 with the document, the handlers of the UI answer with an error
\* page or redirect to the document, and the net/http handler answers 405 to
\* a method other than POST
AnswerStatus(handler, error) ==
    IF handler = "api"
    THEN (IF error = "" THEN 200 ELSE IF error = "binding" THEN 400 ELSE 500)
    ELSE (IF error = "" THEN 303 ELSE IF error = "method" THEN 405 ELSE 200)

\* the error a handler returns at before it does anything else ("" when the
\* request passes): a body that does not bind or an empty URL for the JSON
\* handler, a method other than POST for the net/http handler, an empty URL
\* field for the handlers of the UI
Rejected(handler, request) ==
    IF handler = "api"
    THEN (IF request.malformed \/ request.url = <<>> THEN "binding" ELSE "")
    ELSE IF handler = "http" /\ request.method # "POST" THEN "method"
    ELSE IF request.url = <<>> THEN "url"
    ELSE ""

(* Inputs of the submission handler *)

Requests ==
    {[method |-> "POST", malformed |-> TRUE, url |-> <<>>, description |-> <<>>],
     [method |-> "POST", malformed |-> FALSE, url |-> <<>>, description |-> <<>>]}
    \cup {[method |-> "POST", malformed |-> FALSE, url |-> u, description |-> d] :
            u \in {Chars("http://h/swagger")},
            d \in {<<>>, Chars("Mine")}}

\* what the documentation server answers: 404, an OpenAPI document, or a
\* page, which at a Swagger URL is a parse error
ServiceResponses ==
    {resp \in Responses :
        \/ resp.status = 404
        \/ /\ resp.status = 200 /\ ~resp.readErr
           /\ \/ resp.contentType = Chars("application/json") /\ resp.body.json = InfoTree
              \/ resp.contentType = Chars("text/html; charset=utf-8")
                 /\ resp.body.page # NoPage}

(* Inputs of the store *)

StoredDoc(id, title, at) ==
    [ID |-> id, URL |-> Chars("http://h/swagger"), Title |-> title, Description |-> <<>>,
     Version |-> Chars("3.0.0"), Endpoints |-> <<>>, CreatedAt |-> at, UpdatedAt |-> at]

StoreIDs == {<<OpenAPIPrefix, 0>>, <<OpenAPIPrefix, 1>>, <<HTMLPrefix, 0>>}

\* two documents for each identifier, and two without identifier
StoreDocs ==
    {StoredDoc(id, title, 0) : id \in StoreIDs \cup {<<>>}, title \in {Chars("A"), Chars("B")}}

\* the store after n documents were created one second after the other
CreatedStore(n) ==
    [id \in {<<OpenAPIPrefix, t>> : t \in 1..n} |-> StoredDoc(id, Chars("A"), id[2])]

-----------------------------------------------------------------------------
(* internal/ui: the rate limiter *)

\* NewRateLimiter(1, 5) of NewGinHandler
RequestsPerSecond == 1
WindowSeconds == 5

IsLetter(c) == \E i \in 1..26 : LowerLetters[i] = c \/ UpperLetters[i] = c

\* the control characters url.Parse rejects in front of the fragment (below
\* U+0020, and U+007F)
ControlChars ==
    {"\t", "\n", "\f", "\r", "U+0000", "U+0001", "U+0002", "U+0003", "U+0004", "U+0005",
     "U+0006", "U+0007", "U+0008", "U+000B", "U+000E", "U+000F", "U+0010", "U+0011",
     "U+0012", "U+0013", "U+0014", "U+0015", "U+0016", "U+0017", "U+0018", "U+0019",
     "U+001A", "U+001B", "U+001C", "U+001D", "U+001E", "U+001F", "U+007F"}

\* the ASCII characters parseHost rejects in a host (shouldEscape in mode
\* encodeHost); U+0060 is the grave accent
InvalidHostChars == {" ", "\\", "^", "U+0060", "{", "|", "}"}

\* parseHost, for an authority without '@', '%' and '[': whether it is
\* accepted.  What follows the last ':' must be digits.  A host with a second
\* ':' is rejected from Go 1.26 on (and accepted before when the part after
\* the last ':' is digits): strictColons tells which.
ValidHost(host, strictColons) ==
    LET colons == {i \in 1..Len(host) : host[i] = ":"}
    IN  /\ \A i \in 1..Len(host) : host[i] \notin InvalidHostChars
        /\ colons # {} => \A i \in (Max(colons) + 1)..Len(host) : IsDigit(host[i])
        /\ strictColons => Cardinality(colons) <= 1

\* url.Parse, for URLs without '@', '%' and '[': [err, host].  The fragment
\* is cut off at the first '#'; a control character in front of it is an
\* error, one inside the fragment is not.
\* getScheme reads letters, and after the first character digits, '+', '-'
\* and '.', up to a ':'; a ':' in front is an error, any other character
\* means there is no scheme.  The query is cut off at the first '?'.  Without
\* scheme a first path segment with a ':' is an error.  The host is what
\* stands between a leading "//" and the next '/'.
URLParseWith(url, strictColons) ==
    LET whole == Before(url, "#")
        stops == {p \in 1..Len(whole) :
                     ~(IsLetter(whole[p])
                       \/ (p > 1 /\ (IsDigit(whole[p]) \/ whole[p] \in {"+", "-", "."})))}
        stop == Min(stops)
        hasScheme == stops # {} /\ whole[stop] = ":" /\ stop > 1
        afterScheme == IF hasScheme THEN SubSeq(whole, stop + 1, Len(whole)) ELSE whole
        rest == Before(afterScheme, "?")
        segment == Before(rest, "/")
        authority == SubSeq(rest, 3, Len(rest))
        host == Before(authority, "/")
        failed == [err |-> TRUE, host |-> <<>>]
    IN  IF \E i \in 1..Len(whole) : whole[i] \in ControlChars
        THEN failed
        ELSE IF stops # {} /\ whole[stop] = ":" /\ stop = 1
        THEN failed
        ELSE IF ~HasPrefix(rest, <<"/">>)
        THEN [err |-> ~hasScheme /\ Contains(segment, <<":">>), host |-> <<>>]
        ELSE IF HasPrefix(rest, <<"/", "/">>) /\ (hasScheme \/ ~HasPrefix(rest, <<"/", "/", "/">>))
        THEN IF ValidHost(host, strictColons) THEN [err |-> FALSE, host |-> host] ELSE failed
        ELSE [err |-> FALSE, host |-> <<>>]

\* url.Parse: the results it may give, the image being built with the latest
\* release of Go at the time of the build
URLParse(url) == {URLParseWith(url, strict) : strict \in BOOLEAN}

\* len(rl.requestsPerDomain[domain]); a missing key reads as the empty slice
Recorded(requests, domain) ==
    IF domain \in DOMAIN requests THEN requests[domain] ELSE <<>>

\* cleanupOldRequests with a plausible slip: a request is kept unless it is
\* before the cutoff, so one made exactly a window ago still counts
cleanupOldRequestsNotBefore(requests, domain, now) ==
    LET cutoff == now - WindowSeconds
        times == Recorded(requests, domain)
        within == {i \in 1..Len(times) : times[i] >= cutoff}
        first == IF within = {} THEN Len(times) + 1 ELSE Min(within)
    IN  IF domain \in DOMAIN requests /\ first > 1
        THEN [requests EXCEPT ![domain] = SubSeq(times, first, Len(times))]
        ELSE requests

\* cleanupOldRequests: the requests in front of the first one after the
\* cutoff are dropped
cleanupOldRequests(requests, domain, now) ==
    LET cutoff == now - WindowSeconds
        times == Recorded(requests, domain)
        within == {i \in 1..Len(times) : times[i] > cutoff}
        first == IF within = {} THEN Len(times) + 1 ELSE Min(within)
    IN  IF domain \in DOMAIN requests /\ first > 1
        THEN [requests EXCEPT ![domain] = SubSeq(times, first, Len(times))]
        ELSE requests

\* Allow from rl.mu.Lock() on, with a plausible slip: the test is > for >=
AllowLockedAbove(requests, domain, now) ==
    LET cleaned == cleanupOldRequests(requests, domain, now)
    IN  IF Len(Recorded(cleaned, domain)) > RequestsPerSecond
        THEN [allowed |-> FALSE, requests |-> cleaned]
        ELSE [allowed |-> TRUE,
              requests |-> [d \in DOMAIN cleaned \cup {domain} |->
                               IF d = domain THEN Append(Recorded(cleaned, domain), now)
                               ELSE cleaned[d]]]

\* Allow from rl.mu.Lock() on, the mutex being held to the return:
\* [allowed, requests]
AllowLocked(requests, domain, now) ==
    LET cleaned == cleanupOldRequests(requests, domain, now)
    IN  IF Len(Recorded(cleaned, domain)) >= RequestsPerSecond
        THEN [allowed |-> FALSE, requests |-> cleaned]
        ELSE [allowed |-> TRUE,
              requests |-> [d \in DOMAIN cleaned \cup {domain} |->
                               IF d = domain THEN Append(Recorded(cleaned, domain), now)
                               ELSE cleaned[d]]]

\* "Limit to 5 most recent docs"
IndexLimit == 5

\* handleIndex: the pages it can render, given the documents of the store
handleIndex(docs) ==
    {Got("index", <<>>, "",
         IF Len(all) > IndexLimit THEN SubSeq(all, Len(all) - IndexLimit + 1, Len(all))
         ELSE all) : all \in GetAllAPIDocs(docs)}

\* RateLimiter.Allow in one piece: a URL that does not parse is allowed
Allow(requests, url, now) ==
    {IF u.err THEN [allowed |-> TRUE, requests |-> requests]
     ELSE AllowLocked(requests, u.host, now) : u \in URLParse(url)}

\* what a caller of Allow is told
Verdict(ok, domain, at, allowed) ==
    [parsed |-> ok, domain |-> domain, at |-> at, allowed |-> allowed]

(* Inputs of the rate limiter and of the form *)

\* the form of the UI has a URL field only; the router of gin hands POST
\* requests to the handler
Forms ==
    {[method |-> "POST", malformed |-> FALSE, url |-> u, description |-> <<>>] :
        u \in {<<>>, Chars("http://h/guide")}}

\* the net/http handler is handed the requests of every method
TwinForms ==
    Forms \cup {[method |-> "GET", malformed |-> FALSE, url |-> Chars("http://h/guide"),
                 description |-> <<>>]}

\* the requests that reach a handler
RequestsOf(handler) ==
    IF handler = "api" THEN Requests ELSE IF handler = "gin" THEN Forms ELSE TwinForms

\* two URLs of one host, one of another host, whose two colons the releases
\* of Go differ on, and three that url.Parse rejects
LimiterURLs == {Chars("http://h/swagger"), Chars("http://h/p#\n"), Chars("http://g:1:2/api"),
                Chars(":bad"), Chars("http://h:x/p"), Chars("http://h h/p")}

\* the key of the second host in the limiter
OtherDomain == Chars("g:1:2")

-----------------------------------------------------------------------------
(* Specifications *)

NoSniff == [done |-> FALSE, json |-> FALSE, yaml |-> FALSE]
NoParse == [op |-> "none", err |-> "", doc |-> <<>>]

Called(op, r) == [op |-> op, err |-> r.err, doc |-> r.doc]

IdleSniff == content = <<>> /\ sniff = NoSniff
IdleParse == input = NoInput /\ parsed = NoParse
IdleCalls == clock = 0 /\ issued = <<>>
IdleScrape == scraped = NoScrape

NoRequest == [method |-> "", malformed |-> FALSE, url |-> <<>>, description |-> <<>>]
NoReply == [status |-> 0, request |-> NoRequest, error |-> "", doc |-> <<>>]

Callers == {1, 2}
NoCall == [pc |-> "idle", parser |-> "", input |-> 0, stamp |-> 0,
           result |-> ParseFailure("")]
NoCalls == [c \in Callers |-> NoCall]

\* the goroutines the server runs requests on
Workers == {1, 2}
NoResponse == [netErr |-> FALSE, status |-> 0, readErr |-> FALSE, contentType |-> <<>>,
               body |-> NoBody]
NoFlight == [at |-> 0, handler |-> "", request |-> NoRequest, resp |-> NoResponse,
             id |-> 0, created |-> 0, scrape |-> NoScrape, doc |-> <<>>, error |-> "",
             fetched |-> FALSE, saved |-> FALSE]
NoFlights == [w \in Workers |-> NoFlight]

\* the worker has answered its request
Served == [NoFlight EXCEPT !.at = -1]

IdleStore == store = << >> /\ reply = NoReply /\ flights = NoFlights
IdleCore == calls = NoCalls

NoAllow == [pc |-> "idle", domain |-> <<>>]
NoAllows == [c \in Callers |-> NoAllow]
NoGot == [op |-> "none", id |-> <<>>, err |-> "", docs |-> <<>>]

IdleLimiter == limiter = << >> /\ twin = << >> /\ allows = NoAllows /\ verdicts = <<>>
IdleUI == IdleLimiter /\ got = NoGot

\* The sniffers: a content is drawn, then sniffed.
InitSniff ==
    /\ content \in SniffContents
    /\ sniff = NoSniff
    /\ IdleParse
    /\ IdleCalls
    /\ IdleScrape
    /\ IdleStore
    /\ IdleCore
    /\ IdleUI

Sniff ==
    /\ ~sniff.done
    /\ sniff' = [done |-> TRUE, json |-> isJSON(content), yaml |-> isYAML(content)]
    /\ UNCHANGED <<content, parseVars, clock, issued, scraped, svcVars, calls, uiVars>>

NextSniff == Sniff

SpecSniff == InitSniff /\ [][NextSniff]_vars

\* The parsers: a text is drawn, then handed to the parser it is meant for,
\* in the last second but one: the clock may advance once during the call.
InitParse ==
    /\ input \in ParserInputs
    /\ parsed = NoParse
    /\ clock = MaxClock - 1
    /\ issued = <<>>
    /\ IdleSniff
    /\ IdleScrape
    /\ IdleStore
    /\ IdleCore
    /\ IdleUI

\* the second at which a call entered at second now returns r: that of its
\* last reading of the clock
ReturnedAt(r, now) == IF r.doc = <<>> THEN now ELSE r.doc[1].UpdatedAt

\* a call reads the clock three times while time passes
ParseJSON ==
    /\ parsed.op = "none" /\ input.parser = "JSON"
    /\ \E r \in JSONParse(input.json, ReadingsFrom(clock)) :
        /\ parsed' = Called("JSON", r)
        /\ clock' = ReturnedAt(r, clock)
    /\ UNCHANGED <<sniffVars, input, issued, scraped, svcVars, calls, uiVars>>

ParseYAML ==
    /\ parsed.op = "none" /\ input.parser = "YAML"
    /\ \E r \in YAMLParse(input.yaml, ReadingsFrom(clock)) :
        /\ parsed' = Called("YAML", r)
        /\ clock' = ReturnedAt(r, clock)
    /\ UNCHANGED <<sniffVars, input, issued, scraped, svcVars, calls, uiVars>>

ParseHTML ==
    /\ parsed.op = "none" /\ input.parser = "HTML"
    /\ \E r \in HTMLParse(input.page, ReadingsFrom(clock)) :
        /\ parsed' = Called("HTML", r)
        /\ clock' = ReturnedAt(r, clock)
    /\ UNCHANGED <<sniffVars, input, issued, scraped, svcVars, calls, uiVars>>

NextParse == ParseJSON \/ ParseYAML \/ ParseHTML

SpecParse == InitParse /\ [][NextParse]_vars

\* Extraction calls over time: any parser is called on any of a few texts
\* while the clock advances; the identifiers of the returned documents are
\* recorded.
CallJSONInputs == {j \in VersionInputs : j.syntax /\ j.top = "object" /\ j.swagger = Absent}
CallYAMLInputs == {y \in YAMLInputs : y.syntax /\ ~y.nonStringKey /\ y.tree.top = "object"
                                       /\ y.tree.swagger \in {Absent, Float}}
CallHTMLPages == {h \in HTMLPages : h.title = <<>> /\ Len(h.body) <= 1}

InitCalls ==
    /\ clock = 0
    /\ issued = <<>>
    /\ input = NoInput
    /\ parsed = NoParse
    /\ IdleSniff
    /\ IdleScrape
    /\ IdleStore
    /\ IdleCore
    /\ IdleUI

Issue(r) == IF r.doc = <<>> THEN issued ELSE Append(issued, r.doc[1].ID)

Tick ==
    /\ clock < MaxClock
    /\ clock' = clock + 1
    /\ UNCHANGED <<sniffVars, parseVars, issued, scraped, svcVars, calls, uiVars>>

CallJSON ==
    /\ Len(issued) < MaxCalls
    /\ \E j \in CallJSONInputs : \E r \in JSONParse(j, ReadingsFrom(clock)) :
        /\ issued' = Issue(r)
        /\ clock' = ReturnedAt(r, clock)
    /\ UNCHANGED <<sniffVars, parseVars, scraped, svcVars, calls, uiVars>>

CallYAML ==
    /\ Len(issued) < MaxCalls
    /\ \E y \in CallYAMLInputs : \E r \in YAMLParse(y, ReadingsFrom(clock)) :
        /\ issued' = Issue(r)
        /\ clock' = ReturnedAt(r, clock)
    /\ UNCHANGED <<sniffVars, parseVars, scraped, svcVars, calls, uiVars>>

CallHTML ==
    /\ Len(issued) < MaxCalls
    /\ \E h \in CallHTMLPages : \E r \in HTMLParse(h, ReadingsFrom(clock)) :
        /\ issued' = Issue(r)
        /\ clock' = ReturnedAt(r, clock)
    /\ UNCHANGED <<sniffVars, parseVars, scraped, svcVars, calls, uiVars>>

NextCalls == Tick \/ CallJSON \/ CallYAML \/ CallHTML

SpecCalls == InitCalls /\ [][NextCalls]_vars

\* The scraper: any URL is scraped, the server answering anything, while the
\* clock advances.
Init ==
    /\ clock = 0
    /\ scraped = NoScrape
    /\ issued = <<>>
    /\ IdleSniff
    /\ IdleParse
    /\ IdleStore
    /\ IdleCore
    /\ IdleUI

\* ScrapeAPIDoc depends on the URL, the answer of the server and the readings
\* of the clock only: its outcomes, computed once
Scrapes ==
    {[url |-> url, resp |-> resp, at |-> at, outcomes |-> ScrapeAPIDoc(url, resp, at)]
        : url \in URLs, resp \in Responses, at \in AllReadings}

\* ScrapeAPIDoc(url): it reads the clock three times while time passes, and
\* returns at the second of its last reading
Scrape ==
    /\ \E s \in Scrapes :
        /\ s.at.id = clock
        /\ \E r \in s.outcomes : scraped' = r
        /\ clock' = s.at.updated
    /\ UNCHANGED <<sniffVars, parseVars, issued, svcVars, calls, uiVars>>

Next == Scrape \/ Tick

Spec == Init /\ [][Next]_vars

\* The service: documents are submitted to POST /api/v1/docs and through the
\* form of the UI, the handlers working on one store.  The server runs each
\* request on a goroutine of its own: each worker takes one request, at any
\* time, and the steps of the submissions in progress and the ticks of the
\* clock interleave freely.
InitService ==
    /\ clock = 0
    /\ store = << >>
    /\ reply = NoReply
    /\ flights = NoFlights
    /\ issued = <<>>
    /\ IdleSniff
    /\ IdleParse
    /\ IdleScrape
    /\ IdleCore
    /\ IdleUI

\* the limiter of a handler of the UI
LimiterOf(handler) == IF handler = "gin" THEN limiter ELSE twin

\* ScrapeAPIDoc returns an error whatever the clock shows
\* the URLs of the requests the handlers pass on to the scraper
ServiceURLs ==
    {request.url : request \in UNION {{r \in RequestsOf(h) : Rejected(h, r) = ""} : h \in Handlers}}

\* ScrapeAPIDoc depends on the URL, the answer of the documentation server and
\* the readings of the clock only: its outcomes for the requests of the
\* service, computed once
ServiceScrapes ==
    {[url |-> url, resp |-> resp, at |-> at, outcomes |-> ScrapeAPIDoc(url, resp, at)]
        : url \in ServiceURLs, resp \in ServiceResponses, at \in AllReadings}

ScrapeOf(url, resp, at) ==
    UNION {s.outcomes : s \in {x \in ServiceScrapes : x.at = at /\ x.url = url /\ x.resp = resp}}

\* likewise the outcomes of Parse for the bodies the service fetches
ServiceParses ==
    {[parser |-> parser, body |-> body, now |-> now,
      outcomes |-> ParseWith(parser, body, {Instant(now)})]
        : parser \in {"JSON", "YAML", "HTML"},
          body \in {resp.body : resp \in ServiceResponses},
          now \in 0..MaxClock}

ParseOf(parser, body, now) ==
    UNION {s.outcomes : s \in {x \in ServiceParses :
                                  x.now = now /\ x.parser = parser /\ x.body = body}}

FailsBeforeClock(url, resp) == \A r \in ScrapeOf(url, resp, Instant(0)) : r.err # ""

\* a request reaches a handler, which binds and validates it; the workers
\* being alike, they take their requests in the order of their numbers
Receive(w) ==
    /\ flights[w].at = 0
    /\ \A v \in Workers : v < w => flights[v].at # 0
    /\ \E handler \in Handlers : \E request \in RequestsOf(handler) :
        LET f == [NoFlight EXCEPT !.at = 1, !.handler = handler, !.request = request]
        IN  flights' = [flights EXCEPT ![w] =
                            IF Rejected(handler, request) # ""
                            THEN Fail(f, Rejected(handler, request)) ELSE f]
    /\ UNCHANGED <<sniffVars, parseVars, clock, issued, scraped, store, reply, calls, uiVars>>

\* h.limiter.Allow(url)
AskLimiter(w) ==
    /\ StepOf(flights[w]) = "allow"
    /\ \E a \in Allow(LimiterOf(flights[w].handler), flights[w].request.url, clock) :
        /\ IF flights[w].handler = "gin"
           THEN limiter' = a.requests /\ UNCHANGED twin
           ELSE twin' = a.requests /\ UNCHANGED limiter
        /\ flights' = [flights EXCEPT ![w] =
                           IF a.allowed THEN Advance(@) ELSE Fail(@, "rate")]
    /\ UNCHANGED <<sniffVars, parseVars, clock, issued, scraped, store, reply, calls,
                   allows, verdicts, got>>

\* http.Get and io.ReadAll return with the answer of the documentation
\* server, and the scrape goes on to its first reading of the clock, in
\* Parse, unless it returns an error before
Fetch(w) ==
    /\ StepOf(flights[w]) = "fetch"
    /\ \E resp \in ServiceResponses :
        IF FailsBeforeClock(flights[w].request.url, resp)
        THEN \E r \in ScrapeOf(flights[w].request.url, resp, Instant(0)) :
                flights' = [flights EXCEPT ![w] =
                                Fail([@ EXCEPT !.fetched = TRUE, !.scrape = r], "scrape")]
        ELSE flights' = [flights EXCEPT ![w] =
                             Advance([@ EXCEPT !.fetched = TRUE, !.resp = resp, !.id = clock])]
    /\ UNCHANGED <<sniffVars, parseVars, clock, issued, scraped, store, reply, calls, uiVars>>

\* apiDoc.CreatedAt = time.Now()
SetCreatedAt(w) ==
    /\ StepOf(flights[w]) = "created"
    /\ flights' = [flights EXCEPT ![w] = Advance([@ EXCEPT !.created = clock])]
    /\ UNCHANGED <<sniffVars, parseVars, clock, issued, scraped, store, reply, calls, uiVars>>

\* apiDoc.UpdatedAt = time.Now() and the return of ScrapeAPIDoc; the JSON
\* handler sets the description
SetUpdatedAt(w) ==
    /\ StepOf(flights[w]) = "updated"
    /\ LET f == flights[w]
       IN  \E r \in ScrapeOf(f.request.url, f.resp, Readings(f.id, f.created, clock)) :
              /\ flights' = [flights EXCEPT ![w] =
                                 Advance([@ EXCEPT !.scrape = r,
                                                   !.doc = IF f.handler = "api"
                                                           THEN <<Assemble(r.doc[1], f.request)>>
                                                           ELSE r.doc])]
    /\ UNCHANGED <<sniffVars, parseVars, clock, issued, scraped, store, reply, calls, uiVars>>

\* store.SaveAPIDoc(apiDoc)
SaveDoc(w) ==
    /\ StepOf(flights[w]) = "save"
    /\ LET saved == SaveAPIDoc(store, flights[w].doc[1])
       IN  /\ store' = saved.docs
           /\ flights' = [flights EXCEPT ![w] =
                              IF saved.err # "" THEN Fail(@, "save")
                              ELSE Advance([@ EXCEPT !.saved = TRUE])]
    /\ UNCHANGED <<sniffVars, parseVars, clock, issued, scraped, reply, calls, uiVars>>

\* the handler answers: with the error, or with the document it holds
Answer(w) ==
    /\ StepOf(flights[w]) = "reply"
    /\ LET f == flights[w]
       IN  reply' = Reply(AnswerStatus(f.handler, f.error), f.request, f.error,
                          IF f.error # "" THEN <<>> ELSE f.doc)
    /\ flights' = [flights EXCEPT ![w] = Served]
    /\ UNCHANGED <<sniffVars, parseVars, clock, issued, scraped, store, calls, uiVars>>

NextService ==
    \/ \E w \in Workers : Receive(w)
    \/ \E w \in Workers : AskLimiter(w)
    \/ \E w \in Workers : Fetch(w)
    \/ \E w \in Workers : SetCreatedAt(w)
    \/ \E w \in Workers : SetUpdatedAt(w)
    \/ \E w \in Workers : SaveDoc(w)
    \/ \E w \in Workers : Answer(w)
    \/ Tick

SpecService == InitService /\ [][NextService]_vars

\* Concurrent callers of the extraction core: each caller enters Parse with
\* a content, reads the clock when it creates the document, and returns;
\* the steps of the callers and the ticks of the clock interleave freely.
InitConcurrent ==
    /\ clock = 0
    /\ calls = NoCalls
    /\ issued = <<>>
    /\ IdleSniff
    /\ IdleParse
    /\ IdleScrape
    /\ IdleStore
    /\ IdleUI

Begin(c) ==
    /\ calls[c].pc = "idle"
    /\ \E parser \in Parsers : \E n \in 1..Len(Documents) :
        calls' = [calls EXCEPT ![c] = [@ EXCEPT !.pc = "running", !.parser = parser,
                                                !.input = n]]
    /\ UNCHANGED <<sniffVars, parseVars, clock, issued, scraped, svcVars, uiVars>>

\* time.Now() for the identifier
Stamp(c) ==
    /\ calls[c].pc = "running"
    /\ ~FailsEarly(calls[c].parser, CallContent(calls, c))
    /\ calls' = [calls EXCEPT ![c] = [@ EXCEPT !.pc = "stamped", !.stamp = clock]]
    /\ UNCHANGED <<sniffVars, parseVars, clock, issued, scraped, svcVars, uiVars>>

\* the return, with the readings for CreatedAt and UpdatedAt made since
Return(c) ==
    /\ \/ calls[c].pc = "stamped"
       \/ calls[c].pc = "running" /\ FailsEarly(calls[c].parser, CallContent(calls, c))
    /\ \E r \in ParseWith(calls[c].parser, CallContent(calls, c),
                         {at \in ReadingsFrom(calls[c].stamp) : at.updated <= clock}) :
        calls' = [calls EXCEPT ![c] = [@ EXCEPT !.pc = "done", !.result = r]]
    /\ UNCHANGED <<sniffVars, parseVars, clock, issued, scraped, svcVars, uiVars>>

NextConcurrent ==
    \/ \E c \in Callers : Begin(c)
    \/ \E c \in Callers : Stamp(c)
    \/ \E c \in Callers : Return(c)
    \/ Tick

SpecConcurrent == InitConcurrent /\ [][NextConcurrent]_vars

-----------------------------------------------------------------------------
(* Claims about the parsers, under SpecParse and SpecCalls *)

Returned == parsed.op # "none" /\ parsed.err = ""
Endpoints == parsed.doc[1].Endpoints

\* C1: in every document a parser returns, no two endpoints share the same
\* (method, path) pair.
C1_NoDuplicateEndpoints ==
    Returned =>
        \A a, b \in 1..Len(Endpoints) : SameEndpoint(Endpoints[a], Endpoints[b]) => a = b

\* C2: no two documents returned by extraction calls carry the same identifier.
C2_UniqueIdentifiers ==
    \A a, b \in 1..Len(issued) : issued[a] = issued[b] => a = b

\* the tree of the drawn text in which the version fields are looked up
InputTree == IF input.parser = "JSON" THEN input.json ELSE input.yaml.tree

SyntaxValid == IF input.parser = "JSON" THEN input.json.syntax ELSE input.yaml.syntax

FieldPresent(v) == InputTree.top = "object" /\ v.kind # "absent"
FieldSet(v) == InputTree.top = "object" /\ v.kind = "string" /\ v.s # <<>>

\* the text decodes into the OpenAPIDoc structure without error
Decodes ==
    /\ SyntaxValid
    /\ input.parser = "YAML" => ~input.yaml.nonStringKey
    /\ InputTree.top \in {"object", "null"}
    /\ InputTree.top = "object" =>
        InputTree.openapi.kind \notin {"number", "float"}
        /\ InputTree.swagger.kind \notin {"number", "float"}

\* C7 as stated: on syntactically valid input the parse fails with the
\* not-an-OpenAPI-document error, and returns no document, exactly when
\* neither version field is present; when either is present it succeeds.
C7_AsStated ==
    parsed.op \in {"JSON", "YAML"} /\ SyntaxValid =>
        /\ parsed.err = "notopenapi" <=>
            ~FieldPresent(InputTree.openapi) /\ ~FieldPresent(InputTree.swagger)
        /\ parsed.err = "notopenapi" => parsed.doc = <<>>
        /\ FieldPresent(InputTree.openapi) \/ FieldPresent(InputTree.swagger) =>
            parsed.err = "" /\ parsed.doc # <<>>

\* C7 amended: the parse fails with the not-an-OpenAPI-document error exactly
\* when the text decodes without error and both version fields are absent,
\* null or empty; it succeeds exactly when the text decodes without error and
\* one of them is a non-empty string; a document is returned exactly on success.
C7_VersionRequired ==
    parsed.op \in {"JSON", "YAML"} =>
        /\ parsed.err = "notopenapi" <=>
            Decodes /\ ~FieldSet(InputTree.openapi) /\ ~FieldSet(InputTree.swagger)
        /\ parsed.err = "" <=>
            Decodes /\ (FieldSet(InputTree.openapi) \/ FieldSet(InputTree.swagger))
        /\ parsed.err # "" <=> parsed.doc = <<>>

\* a Swagger 2.0 text (swagger set, openapi absent) has been parsed, and so has
\* a text whose only version field is the empty string
C7_Witness ==
    /\ parsed.op \in {"JSON", "YAML"}
    /\ Decodes
    /\ ~FieldSet(InputTree.openapi)
    /\ FieldSet(InputTree.swagger)
    /\ parsed.err = ""

RecognizedVerbs == {"get", "post", "put", "delete", "patch", "options", "head"}

\* the letters of ASCII in lower case, the long s and the Kelvin sign as the
\* letters they stand for
Caseless(name) ==
    [i \in 1..Len(name) |->
        IF name[i] = "U+017F" THEN "s" ELSE IF name[i] = "U+212A" THEN "k"
        ELSE IF Len(name[i]) = 1 THEN LowerChar(name[i]) ELSE name[i]]

\* the members of a path item that name verb, without regard to case
Naming(item, verb) == {k \in 1..Len(item) : Caseless(item[k].name) = Chars(verb)}

\* verb is present under the path item: the last member that names it is an
\* object (null is no operation)
VerbPresent(item, verb) ==
    Naming(item, verb) # {} /\ item[Max(Naming(item, verb))].kind = "object"

\* the (path, verb) pairs of the drawn JSON text
VerbPairs ==
    {pv \in (DOMAIN input.json.paths) \X RecognizedVerbs :
        VerbPresent(input.json.paths[pv[1]], pv[2])}

EndpointFor(e, pv) == e.Path = pv[1] /\ Chars(e.Method) = ToUpper(Chars(pv[2]))

\* C8: the normalizer emits exactly one endpoint for every (path, verb) with
\* verb one of the 7 recognized verbs present under path, the verb in
\* uppercase and the path as written, and no other endpoint.
C8_OneEndpointPerVerb ==
    Returned /\ parsed.op = "JSON" =>
        /\ Len(Endpoints) = Cardinality(VerbPairs)
        /\ \A pv \in VerbPairs :
            Cardinality({i \in 1..Len(Endpoints) : EndpointFor(Endpoints[i], pv)}) = 1
        /\ \A i \in 1..Len(Endpoints) : \E pv \in VerbPairs : EndpointFor(Endpoints[i], pv)

\* two paths, one of them with an unrecognized member, have been normalized
\* into at least two endpoints, and so has an item that names a verb in upper
\* case, and one that names a verb twice
C8_Witness ==
    /\ Returned /\ parsed.op = "JSON"
    /\ \/ /\ Len(Endpoints) >= 2
          /\ \E p \in DOMAIN input.json.paths :
                \E k \in 1..Len(input.json.paths[p]) :
                    input.json.paths[p][k].name = Chars("trace")
       \/ /\ Len(Endpoints) = 1
          /\ \E p \in DOMAIN input.json.paths :
                Cardinality(Naming(input.json.paths[p], "get")) >= 2

\* the decoded operation an endpoint was made from
SourceOperation(e) == OperationOf(input.json.paths[e.Path], e.Method)

IsDecimal(key) == key # <<>> /\ \A i \in 1..Len(key) : IsDigit(key[i])

\* the status code the claim gives a response key
StatedStatus(key) ==
    IF key = S_default THEN Numeral("0")
    ELSE IF IsDecimal(key) THEN StripZeros(key) ELSE Numeral("0")

\* C9: the key "default" yields status code 0, a decimal key yields that
\* integer, every other key yields 0, and each entry of the responses object
\* yields exactly one Response.
C9_StatusCodes ==
    Returned /\ parsed.op = "JSON" =>
        \A i \in 1..Len(Endpoints) :
            LET keys == DOMAIN SourceOperation(Endpoints[i]).Responses
                resps == Endpoints[i].Responses
            IN  /\ Len(resps) = Cardinality(keys)
                /\ \A code \in {StatedStatus(k) : k \in keys} \cup
                               {resps[n].StatusCode : n \in 1..Len(resps)} :
                    Cardinality({n \in 1..Len(resps) : resps[n].StatusCode = code})
                    = Cardinality({k \in keys : StatedStatus(k) = code})

SchemaTypePresent(param) == param.Schema # <<>> /\ param.Schema[1].Type # ""

\* C10: a parameter's type is schema.type whenever a schema type is present,
\* and the legacy top-level type only otherwise.
C10_SchemaTypeWins ==
    Returned /\ parsed.op = "JSON" =>
        \A i \in 1..Len(Endpoints) :
            LET source == SourceOperation(Endpoints[i]).Parameters
                params == Endpoints[i].Parameters
            IN  /\ Len(params) = Len(source)
                /\ \A n \in 1..Len(params) :
                    /\ SchemaTypePresent(source[n]) =>
                        params[n].Type = source[n].Schema[1].Type
                    /\ ~SchemaTypePresent(source[n]) => params[n].Type = source[n].Type

\* a parameter with both a schema type and a legacy type has been normalized
C10_Witness ==
    /\ Returned /\ parsed.op = "JSON"
    /\ \E i \in 1..Len(Endpoints) :
        \E n \in 1..Len(Endpoints[i].Parameters) :
            /\ SchemaTypePresent(SourceOperation(Endpoints[i]).Parameters[n])
            /\ SourceOperation(Endpoints[i]).Parameters[n].Type = "string"
            /\ Endpoints[i].Parameters[n].Type = "integer"

-----------------------------------------------------------------------------
(* Claims about the HTML extractor, under SpecParse *)

\* HTMLParser.Parse has returned; it has returned a document
CalledHTML == parsed.op = "HTML"
ParsedHTML == CalledHTML /\ parsed.err = ""
Body == input.page.body

HasHeading(body) == \E k \in 1..Len(body) : IsHeading(body[k])

\* some element is matched by the selector of the code-block pass
HasCodeBlock(body) ==
    \E k \in 1..Len(body) : body[k].tag \in {"pre", "code"} \/ body[k].codes # <<>>

C13_HeadingAndBlockOnce ==
    ParsedHTML =>
        LET heads == HeadingPass(Body)
            blocks == BlockCandidates(Body)
        IN  \A h \in 1..Len(heads) :
                (\E b \in 1..Len(blocks) : SameEndpoint(heads[h], blocks[b])) =>
                    /\ Cardinality({i \in 1..Len(Endpoints) :
                                        SameEndpoint(Endpoints[i], heads[h])}) = 1
                    /\ \E i \in 1..Len(Endpoints) : Endpoints[i] = heads[h]

EndpointWith(method, path, nParams, nResponses) ==
    \E i \in 1..Len(Endpoints) :
        /\ Endpoints[i].Method = method /\ Endpoints[i].Path = path
        /\ Len(Endpoints[i].Parameters) = nParams
        /\ Len(Endpoints[i].Responses) = nResponses

\* C14: for the test page (headings "GET /users" and "POST /users", each
\* followed by a sub-heading, a parameter table and a list of status codes)
\* the extractor returns exactly those 2 endpoints, each with 1 parameter and
\* 2 responses.
C14_TestPage ==
    ParsedHTML /\ input.page = TestPage =>
        /\ Len(Endpoints) = 2
        /\ EndpointWith("GET", Chars("/users"), 1, 2)
        /\ EndpointWith("POST", Chars("/users"), 1, 2)

\* a text of more than 200 bytes cut to its first 197 bytes and "..."
Truncated(text) ==
    IF ByteLen(text) > 200 THEN Slice(text, 197) \o <<".", ".", ".">> ELSE text

MetaContents(page) == SelectSeq(page.metas, LAMBDA m : m.hasContent)

TextsOf(body, tag) ==
    LET es == SelectSeq(body, LAMBDA e : e.tag = tag)
    IN  [k \in 1..Len(es) |-> es[k].text]

NonEmpty(texts) == SelectSeq(texts, LAMBDA t : t # <<>>)

\* C18 as stated: the description is the content of a description meta
\* element if one is present (with a content that is not empty); otherwise
\* the text of the first non-empty <p>; otherwise the text of the first
\* non-empty <div> (cut to the limit).
C18_AsStated ==
    ParsedHTML =>
        LET d == parsed.doc[1].Description
            ms == SelectSeq(MetaContents(input.page), LAMBDA m : m.content # <<>>)
            ps == NonEmpty(TextsOf(Body, "p"))
            ds == NonEmpty(TextsOf(Body, "div"))
        IN  IF ms # <<>> THEN \E k \in 1..Len(ms) : d = ms[k].content
            ELSE IF ps # <<>> THEN d = Truncated(ps[1])
            ELSE IF ds # <<>> THEN d = Truncated(ds[1])
            ELSE d = <<>>

\* C18 amended: the description is the content of the last description meta
\* element that has a content attribute when that content is not empty;
\* otherwise the text of the FIRST <p> when that text is not empty; otherwise
\* the text of the FIRST <div>, empty or not (p and div text cut to the limit).
C18_FirstParagraphOrDiv ==
    ParsedHTML =>
        LET d == parsed.doc[1].Description
            ms == MetaContents(input.page)
            ps == TextsOf(Body, "p")
            ds == TextsOf(Body, "div")
        IN  IF ms # <<>> /\ ms[Len(ms)].content # <<>> THEN d = ms[Len(ms)].content
            ELSE IF ps # <<>> /\ ps[1] # <<>> THEN d = Truncated(ps[1])
            ELSE IF ds # <<>> THEN d = Truncated(ds[1])
            ELSE d = <<>>

\* a page without meta description whose first <p> is empty and whose second
\* <p> is not has been extracted, and the paragraph was not used
C18_Witness ==
    /\ ParsedHTML
    /\ MetaContents(input.page) = <<>>
    /\ Len(TextsOf(Body, "p")) = 2
    /\ TextsOf(Body, "p")[1] = <<>> /\ TextsOf(Body, "p")[2] # <<>>
    /\ parsed.doc[1].Description = <<>>

\* C19: the description of every document the HTML extractor returns is at
\* most 200 characters long, whichever element it came from.
C19_DescriptionAtMost200 ==
    ParsedHTML => Len(parsed.doc[1].Description) <= 200

-----------------------------------------------------------------------------
(* Claims about strategy selection, under Spec *)

Selected == scraped.strategy # ""

NamesJSON(hint) == Contains(hint, S_json)
NamesYAML(hint) == Contains(hint, S_yaml) \/ Contains(hint, S_yml)
NamesHTML(hint) == Contains(hint, S_html)

\* C3: whatever the URL and the content, a hint containing "json" selects the
\* JSON strategy, one containing "yaml" or "yml" YAML, one containing "html" HTML.
C3_HintFirst ==
    Selected =>
        /\ NamesJSON(scraped.hint) => scraped.strategy = "JSON"
        /\ NamesYAML(scraped.hint) => scraped.strategy = "YAML"
        /\ NamesHTML(scraped.hint) => scraped.strategy = "HTML"

\* C5: on every scrape path, a document whose hint names no format and whose
\* content sniffs as neither JSON nor YAML is handed to the HTML strategy.
C5_HTMLFallback ==
    /\ Selected
    /\ ~NamesJSON(scraped.hint) /\ ~NamesYAML(scraped.hint) /\ ~NamesHTML(scraped.hint)
    /\ ~isJSON(scraped.bytes) /\ ~isYAML(scraped.bytes)
    => scraped.strategy = "HTML"

\* C6: two documents with the same content-type hint and the same bytes are
\* given the same strategy, whichever URL they were fetched from.
C6_SameInputSameStrategy ==
    [][Selected /\ Selected' /\ scraped'.hint = scraped.hint
       /\ scraped'.bytes = scraped.bytes
       => scraped'.strategy = scraped.strategy]_vars

Scraped == scraped.route # ""

\* the resource the scraped bytes belong to
ScrapedBody == CHOOSE b \in Bodies : b.bytes = scraped.bytes

VersionSet(tree) ==
    \/ tree.openapi.kind = "string" /\ tree.openapi.s # <<>>
    \/ tree.swagger.kind = "string" /\ tree.swagger.s # <<>>

\* the text is no OpenAPI document for the strategy: it has a syntax error,
\* is no mapping, or lacks the version field
Unparseable(strategy, body) ==
    IF strategy = "JSON"
    THEN ~body.json.syntax \/ body.json.top # "object" \/ ~VersionSet(body.json)
    ELSE \/ ~body.yaml.syntax \/ body.yaml.nonStringKey
         \/ body.yaml.tree.top # "object" \/ ~VersionSet(body.yaml.tree)

ParseErrors == {"syntax", "type", "notopenapi", "yaml", "marshal"}

\* C15: when the selected strategy is JSON or YAML and parsing fails, the
\* scrape returns the parser's error, attempts no HTML extraction and produces
\* no document.
C15_NoFallbackToHTML ==
    Selected /\ scraped.strategy \in {"JSON", "YAML"}
    /\ Unparseable(scraped.strategy, ScrapedBody)
    => /\ scraped.err = "parse"
       /\ scraped.cause \in ParseErrors
       /\ scraped.doc = <<>>

\* a documentation page was handed to the JSON strategy, and the scrape
\* failed although the HTML extractor finds an endpoint in the page
C15_Witness ==
    /\ Selected /\ scraped.strategy = "JSON"
    /\ ScrapedBody.page.body # <<>>
    /\ \A r \in HTMLParse(ScrapedBody.page, {Instant(clock)}) : r.doc[1].Endpoints # <<>>
    /\ scraped.err = "parse" /\ scraped.doc = <<>>

\* C20 as stated: a transport failure is returned unchanged; every
\* non-success status fails with an error carrying the status code; every
\* success status (2xx) whose body can be read lets the scrape proceed to
\* parsing; a fetch failure returns no document.
C20_AsStated ==
    Scraped =>
        /\ scraped.fetched.netErr =>
            scraped.err = "transport" /\ ~scraped.wrapped /\ scraped.doc = <<>>
        /\ ~scraped.fetched.netErr /\ scraped.fetched.status \notin 200..299 =>
            /\ scraped.err = "status" /\ scraped.errCode = scraped.fetched.status
            /\ scraped.doc = <<>>
        /\ ~scraped.fetched.netErr /\ scraped.fetched.status \in 200..299
           /\ ~scraped.fetched.readErr => Selected

\* C20 amended: a failed request is returned unchanged; every status other
\* than 200 fails with an error carrying the status code; status 200 lets the
\* scrape proceed to reading the body, whose failure is returned wrapped, and
\* then to parsing; a parser is selected exactly when the fetch succeeded, and
\* a fetch failure returns no document.
C20_OnlyStatus200 ==
    Scraped =>
        /\ scraped.fetched.netErr =>
            scraped.err = "transport" /\ ~scraped.wrapped /\ scraped.doc = <<>>
        /\ ~scraped.fetched.netErr /\ scraped.fetched.status # 200 =>
            /\ scraped.err = "status" /\ scraped.errCode = scraped.fetched.status
            /\ scraped.doc = <<>>
        /\ ~scraped.fetched.netErr /\ scraped.fetched.status = 200
           /\ scraped.fetched.readErr =>
            scraped.err = "read" /\ scraped.wrapped /\ scraped.doc = <<>>
        /\ Selected <=>
            /\ ~scraped.fetched.netErr /\ scraped.fetched.status = 200
            /\ ~scraped.fetched.readErr

\* the server answered 204 No Content and the scrape failed with the status
C20_Witness ==
    /\ Scraped
    /\ scraped.fetched.status = 204
    /\ scraped.err = "status" /\ scraped.errCode = 204
    /\ scraped.doc = <<>>

-----------------------------------------------------------------------------
(* Claims about the submission handler, under SpecService *)

\* the step is the answer to the submission of worker w
Answers(w) == flights[w].at > 0 /\ flights'[w].at < 0

Accepted == reply.status \in {200, 303} /\ reply.error = ""

\* the documents the extractor selected for the submission may return for
\* the fetched bytes
Extracted(f) ==
    {r.doc[1] : r \in {x \in ParseOf(f.scrape.strategy, f.resp.body, f.id) : x.err = ""}}

\* C16: for every successful submission the finalized document has the
\* submitted URL as source URL, the caller's description when that is not
\* empty and the extractor's description otherwise, and the extractor's
\* title, version and endpoints.
C16_Assembly ==
    [][\A w \in Workers :
          (Answers(w) /\ reply'.error = "") =>
              LET d == reply'.doc[1]
                  f == flights[w]
              IN  /\ d.URL = f.request.url
                  /\ \E e \in Extracted(f) :
                      /\ d.Description = IF f.request.description # <<>>
                                         THEN f.request.description ELSE e.Description
                      /\ d.Title = e.Title
                      /\ d.Version = e.Version
                      /\ d.Endpoints = e.Endpoints]_vars

\* a document whose extractor found a description was submitted without a
\* description of the caller, and another with one
C16_Witness ==
    /\ Accepted
    /\ reply.request.description = <<>>
    /\ reply.doc[1].Description = Chars("D")
    /\ reply.doc[1].Endpoints # <<>>
    /\ \E id \in DOMAIN store : store[id].Description = Chars("Mine")

-----------------------------------------------------------------------------
(* Claims about calls of the extraction core, under SpecConcurrent *)

Done(c) == calls[c].pc = "done"

\* equal in title, description, version and the sequence of endpoints
SameContent(a, b) ==
    /\ a.Title = b.Title /\ a.Description = b.Description
    /\ a.Version = b.Version /\ a.Endpoints = b.Endpoints

\* C11: for the YAML and the JSON form of the same OpenAPI document,
\* YAMLParser.Parse and JSONParser.Parse return documents equal in title,
\* description, version and the sequence of endpoints.
C11_SameDocumentBothForms ==
    \A a, b \in Callers :
        /\ Done(a) /\ Done(b)
        /\ calls[a].parser = "JSON" /\ calls[b].parser = "YAML"
        /\ <<calls[a].input, calls[b].input>> \in FormPairs
        => /\ calls[a].result.err = "" /\ calls[b].result.err = ""
           /\ SameContent(calls[a].result.doc[1], calls[b].result.doc[1])

\* the results a call with this parser and content returns when it runs
\* alone and reads the clock for its identifier in the second stamp
Alone(parser, n, stamp) == ParseWith(parser, Documents[n], {Instant(stamp)})

\* a result without its timestamps
Untimed(r) ==
    IF r.doc = <<>> THEN r
    ELSE [r EXCEPT !.doc = <<[r.doc[1] EXCEPT !.CreatedAt = 0, !.UpdatedAt = 0]>>]

-----------------------------------------------------------------------------
(* Claims about the sniffers, under SpecSniff *)

ColonAt(line, i) == i \in 1..Len(line) /\ line[i] = ":"
AfterQuoteOrBrace(line, i) == i > 1 /\ line[i - 1] \in {"\"", "{"}

TrimmedLines(c) == Split(TrimSpace(c), "\n")

BoundedBy(c, open, close) ==
    LET t == TrimSpace(c)
    IN  Len(t) >= 1 /\ t[1] = open /\ t[Len(t)] = close

\* C4 as stated: content is JSON iff its trimmed form is bounded by {..} or
\* [..]; content that is not JSON is YAML as soon as SOME ':' of some line is
\* not immediately preceded by a quote or a brace; never both.
C4_AsStated ==
    sniff.done =>
        /\ sniff.json <=> (BoundedBy(content, "{", "}") \/ BoundedBy(content, "[", "]"))
        /\ (~sniff.json /\ \E k \in 1..Len(TrimmedLines(content)) :
                \E i \in 1..Len(TrimmedLines(content)[k]) :
                    /\ ColonAt(TrimmedLines(content)[k], i)
                    /\ ~AfterQuoteOrBrace(TrimmedLines(content)[k], i))
           => sniff.yaml
        /\ ~(sniff.json /\ sniff.yaml)

\* C4 amended: content is JSON iff its trimmed form is bounded by {..} or
\* [..]; content is YAML iff it is not JSON and some line of the trimmed
\* content has a ':' and NONE of that line's ':' is immediately preceded by
\* '"' or '{' (a line with one such ':' is excluded whole); never both.
C4_Sniffing ==
    sniff.done =>
        /\ sniff.json <=> (BoundedBy(content, "{", "}") \/ BoundedBy(content, "[", "]"))
        /\ sniff.yaml <=>
            /\ ~sniff.json
            /\ \E k \in 1..Len(TrimmedLines(content)) :
                 LET line == TrimmedLines(content)[k]
                 IN  /\ \E i \in 1..Len(line) : ColonAt(line, i)
                     /\ \A i \in 1..Len(line) :
                            ColonAt(line, i) => ~AfterQuoteOrBrace(line, i)
        /\ ~(sniff.json /\ sniff.yaml)

\* a content with a free ':' and a quoted ':' on one line has been sniffed
C4_Witness ==
    /\ sniff.done
    /\ content = <<":", "\"", ":">>
    /\ ~sniff.yaml /\ ~sniff.json

-----------------------------------------------------------------------------
(* Claims about the sections of an HTML page *)

\* the headings the heading pass turns into endpoints, in document order
ClassifiedHeadings(body) ==
    SelectSeq([i \in 1..Len(body) |-> i],
              LAMBDA i : /\ IsHeading(body[i])
                         /\ TrimSpace(body[i].text) # <<>>
                         /\ containsEndpointIndicators(TrimSpace(body[i].text)))

\* the verbs of the list that occur in the text, whatever the case of its
\* letters
VerbsIn(text) ==
    LET capitals == ToUpper(text)
    IN  {n \in 1..Len(HeadingMethods) :
            LET verb == Chars(HeadingMethods[n])
            IN  \E p \in 1..(Len(text) - Len(verb) + 1) :
                    SubSeq(capitals, p, p + Len(verb) - 1) = verb}

StatedMethod(text) ==
    LET verbs == VerbsIn(text)
    IN  IF verbs = {} THEN "GET" ELSE HeadingMethods[Min(verbs)]

\* the first whitespace-delimited token that begins with "/"
StatedPath(text) ==
    LET starts == {p \in 1..Len(text) :
                      text[p] = "/" /\ (p = 1 \/ IsSpace(text[p - 1]))}
        from == Min(starts)
        stops == {q \in from..Len(text) : IsSpace(text[q])}
    IN  IF starts = {} THEN S_Unknown
        ELSE SubSeq(text, from, IF stops = {} THEN Len(text) ELSE Min(stops) - 1)

\* C21: the endpoint of a classified heading has as method the first verb of
\* GET, POST, PUT, DELETE, PATCH, OPTIONS, HEAD that occurs in the heading
\* text in any case (GET when none occurs), and as path the first
\* whitespace-delimited token beginning with "/" ("Unknown" when there is none).
C21_MethodAndPath ==
    ParsedHTML =>
        LET hs == ClassifiedHeadings(Body)
        IN  /\ Len(Endpoints) >= Len(hs)
            /\ \A j \in 1..Len(hs) :
                  /\ Endpoints[j].Method = StatedMethod(Body[hs[j]].text)
                  /\ Endpoints[j].Path = StatedPath(Body[hs[j]].text)

\* a heading naming DELETE before PUT in lower case became a PUT endpoint with
\* its path, and a heading without verb and path became GET Unknown
C21_Witness ==
    /\ ParsedHTML
    /\ LET hs == ClassifiedHeadings(Body)
       IN  \E j \in 1..Len(hs) :
              /\ Body[hs[j]].text = Chars("Delete or put /x/:id")
              /\ Endpoints[j].Method = "PUT"
              /\ Endpoints[j].Path = Chars("/x/:id")

\* the parameter the documentation gives for a row of cells
StatedParameter(path, cells) ==
    LET inPath == \/ Contains(path, <<"{">> \o cells[1] \o <<"}">>)
                  \/ Contains(path, <<":">> \o cells[1])
    IN  [Name |-> cells[1], In |-> IF inPath THEN "path" ELSE "query",
         Required |-> inPath, Type |-> "string", Description |-> cells[2]]

\* table by table: the header row is left out, every other row with at least
\* two cells gives a parameter
TableParameters(path, section) ==
    ConcatAll([k \in 1..Len(section) |->
        LET rows == section[k].rows
            data == SelectSeq(SubSeq(rows, 2, Len(rows)), LAMBDA r : Len(r) >= 2)
        IN  [n \in 1..Len(data) |-> StatedParameter(path, data[n])]])

\* C22: in the heading pass the parameters of an endpoint come only from the
\* table rows between its heading and the next heading of any level; the
\* header row of each table is skipped and every other row with at least two
\* cells gives one parameter: name cell 0, description cell 1, type "string",
\* in "path" and required when the path contains {name} or :name, otherwise
\* in "query" and not required.
C22_TableParameters ==
    ParsedHTML =>
        LET hs == ClassifiedHeadings(Body)
        IN  \A j \in 1..Len(hs) :
                Endpoints[j].Parameters =
                    TableParameters(Endpoints[j].Path, NextUntilHeading(Body, hs[j]))

\* the endpoints the code-block pass added after those of the headings
BlockEndpoints ==
    SubSeq(Endpoints, Len(ClassifiedHeadings(Body)) + 1, Len(Endpoints))

\* <<method, line>>: the lines of a code block that contain a method of the
\* code-block pass and have at least two fields
BlockLines(body) ==
    {<<BlockMethods[n], l>> :
        n \in 1..Len(BlockMethods),
        l \in UNION {{Split(b, "\n")[k] : k \in 1..Len(Split(b, "\n"))} :
                        b \in {CodeBlocks(body)[k] : k \in 1..Len(CodeBlocks(body))}}}

QualifyingLines(body) ==
    {ml \in BlockLines(body) : Contains(ml[2], Chars(ml[1])) /\ Len(Fields(ml[2])) >= 2}

FullURL(field) == HasPrefix(field, S_http) \/ HasPrefix(field, S_https)

\* what the documentation gives as the path of field 1: a full URL loses its
\* scheme and host and so begins with "/", anything else is kept
IsStatedPathOf(path, field) ==
    IF FullURL(field)
    THEN LET rest == IF HasPrefix(field, S_http) THEN TrimPrefix(field, S_http)
                     ELSE TrimPrefix(field, S_https)
             slash == Index(rest, <<"/">>)
         IN  /\ HasPrefix(path, <<"/">>)
             /\ slash >= 0
             /\ path = SliceFrom(rest, slash)
    ELSE path = field

\* C23: an endpoint of the code-block pass comes from a line that contains its
\* method, one of GET, POST, PUT, DELETE, PATCH, and has at least two fields;
\* its path is field 1 without a leading http:// or https:// scheme and host,
\* so that the path of a full URL begins with "/"; its summary is the whole
\* line, its description is empty, it has no parameters and exactly the
\* response 200 "OK".
C23_CodeBlockEndpoints ==
    ParsedHTML =>
        \A n \in 1..Len(BlockEndpoints) :
            LET e == BlockEndpoints[n]
            IN  \E ml \in QualifyingLines(Body) :
                    /\ e.Method = ml[1]
                    /\ e.Summary = ml[2]
                    /\ e.Description = <<>>
                    /\ e.Parameters = <<>>
                    /\ e.Responses = <<[StatusCode |-> Numeral("200"), Description |-> Chars("OK")]>>
                    /\ IsStatedPathOf(e.Path, Fields(ml[2])[2])

-----------------------------------------------------------------------------
(* Claims about the route of a scrape *)

\* the text occurs somewhere in the URL
Mentions(url, word) ==
    \E p \in 1..Len(url) :
        p + Len(Chars(word)) - 1 <= Len(url) /\ SubSeq(url, p, p + Len(Chars(word)) - 1) = Chars(word)

StatedRoute(url) ==
    IF Mentions(url, "swagger") \/ Mentions(url, "openapi") \/ Mentions(url, "api-docs")
    THEN "swagger"
    ELSE IF Mentions(url, "api") /\ (Mentions(url, "doc") \/ Mentions(url, "reference"))
         THEN "rest"
         ELSE "generic"

\* C24: the route of a scrape depends on the text of the URL only: a URL
\* containing "swagger", "openapi" or "api-docs" is scraped as Swagger;
\* otherwise a URL containing "api" and "doc" or "reference" is scraped as
\* REST documentation; every other URL is scraped generically.
C24_RouteFromURL ==
    Scraped => scraped.route = StatedRoute(scraped.url)

\* a URL that passes both tests was scraped as Swagger
C24_Witness ==
    /\ Scraped
    /\ scraped.url = Chars("http://h/api-docs")
    /\ isRESTDocURL(scraped.url)
    /\ scraped.route = "swagger"

-----------------------------------------------------------------------------
(* The rate limiter under concurrent callers *)

\* Concurrent callers of Allow: a caller parses its URL, then takes the mutex
\* and runs the rest of Allow without interruption; the callers' steps and
\* the passing of time interleave freely.
InitLimiter ==
    /\ clock = 0
    /\ issued = <<>>
    /\ IdleSniff
    /\ IdleParse
    /\ IdleScrape
    /\ IdleStore
    /\ IdleCore
    /\ IdleUI

Waiting == {c \in Callers : allows[c].pc = "locking"}

\* url.Parse and, when it fails, the return of true
Enter(c) ==
    /\ allows[c].pc = "idle"
    /\ Len(verdicts) + Cardinality(Waiting) < MaxVerdicts
    /\ \E url \in LimiterURLs : \E u \in URLParse(url) :
        IF u.err
        THEN /\ verdicts' = Append(verdicts, Verdict(FALSE, <<>>, clock, TRUE))
             /\ UNCHANGED allows
        ELSE /\ allows' = [allows EXCEPT ![c] = [pc |-> "locking", domain |-> u.host]]
             /\ UNCHANGED verdicts
    /\ UNCHANGED <<sniffVars, parseVars, clock, issued, scraped, svcVars, calls, limiter, twin, got>>

\* from rl.mu.Lock() to the return
Critical(c) ==
    /\ allows[c].pc = "locking"
    /\ LET a == AllowLocked(limiter, allows[c].domain, clock)
       IN  /\ limiter' = a.requests
           /\ verdicts' = Append(verdicts, Verdict(TRUE, allows[c].domain, clock, a.allowed))
    /\ allows' = [allows EXCEPT ![c] = NoAllow]
    /\ UNCHANGED <<sniffVars, parseVars, clock, issued, scraped, svcVars, calls, twin, got>>

\* time passes
Wait ==
    /\ clock < MaxWait
    /\ clock' = clock + 1
    /\ UNCHANGED <<sniffVars, parseVars, issued, scraped, svcVars, calls, uiVars>>

NextLimiter ==
    \/ \E c \in Callers : Enter(c)
    \/ \E c \in Callers : Critical(c)
    \/ Wait

SpecLimiter == InitLimiter /\ [][NextLimiter]_vars

\* the calls that returned for the domain, in the order of their return
Granted(domain) ==
    {k \in 1..Len(verdicts) :
        verdicts[k].parsed /\ verdicts[k].domain = domain /\ verdicts[k].allowed}

Domains == {verdicts[k].domain : k \in {k \in 1..Len(verdicts) : verdicts[k].parsed}}

\* C25: the UI rate limiter allows 1 request per domain every 5 seconds: under
\* any interleaving of concurrent Allow calls, two allowed requests to the
\* same domain are at least 5 seconds apart, and a domain without an allowed
\* request in the last 5 seconds is not denied because of requests to other
\* domains.
C25_OnePerDomainPerWindow ==
    /\ \A d \in Domains : \A i \in Granted(d) : \A j \in Granted(d) :
          i < j => verdicts[j].at - verdicts[i].at >= 5
    /\ \A k \in 1..Len(verdicts) :
          (verdicts[k].parsed /\ ~verdicts[k].allowed) =>
              \E i \in Granted(verdicts[k].domain) :
                  i < k /\ verdicts[k].at - verdicts[i].at < 5

\* a request to h was allowed, and within 5 seconds a second one to h was
\* denied and then one to the other domain, g:1:2, allowed
C25_Witness ==
    \E i, j, k \in 1..Len(verdicts) :
        /\ i < j /\ j < k
        /\ verdicts[i].domain = <<"h">> /\ verdicts[i].allowed
        /\ verdicts[j].domain = <<"h">> /\ ~verdicts[j].allowed
        /\ verdicts[k].domain = OtherDomain /\ verdicts[k].allowed
        /\ verdicts[k].at < verdicts[i].at + 5

\* the step is the return of an Allow call on a URL with a domain
Returns == Len(verdicts') = Len(verdicts) + 1 /\ verdicts'[Len(verdicts')].parsed

ReturnedVerdict == verdicts'[Len(verdicts')]

\* C29: a denied Allow call leaves the recorded requests of the rate limiter
\* as they were, and a request made at least windowSeconds after the last
\* allowed request to its domain is allowed, whatever was denied in between.
C29_DenialsDoNotExtendTheWait ==
    [][Returns =>
          /\ ~ReturnedVerdict.allowed => limiter' = limiter
          /\ (\A i \in Granted(ReturnedVerdict.domain) :
                  ReturnedVerdict.at - verdicts[i].at >= WindowSeconds)
                => ReturnedVerdict.allowed]_vars

\* a request to h was allowed, a later one was denied, and one made
\* windowSeconds after the first was allowed
C29_Witness ==
    \E i, j, k \in 1..Len(verdicts) :
        /\ i < j /\ j < k
        /\ verdicts[i].domain = <<"h">> /\ verdicts[i].allowed
        /\ verdicts[j].domain = <<"h">> /\ ~verdicts[j].allowed
        /\ verdicts[j].at > verdicts[i].at
        /\ verdicts[k].domain = <<"h">> /\ verdicts[k].allowed
        /\ verdicts[k].at = verdicts[i].at + WindowSeconds

-----------------------------------------------------------------------------
(* The store *)

\* Concurrent users of the store: every operation holds the mutex of the
\* store from its first statement to its return, so the operations of the
\* users follow one another in any order.
InitStore ==
    /\ clock = 0
    /\ issued = <<>>
    /\ IdleSniff
    /\ IdleParse
    /\ IdleScrape
    /\ IdleStore
    /\ IdleCore
    /\ IdleUI

Save ==
    /\ \E doc \in StoreDocs :
        /\ store' = SaveAPIDoc(store, doc).docs
        /\ got' = Got("save", doc.ID, SaveAPIDoc(store, doc).err, <<doc>>)
    /\ UNCHANGED <<sniffVars, parseVars, clock, issued, scraped, reply, flights, calls,
                   limiter, twin, allows, verdicts>>

Get ==
    /\ \E id \in StoreIDs :
        got' = Got("get", id, GetAPIDoc(store, id).err, GetAPIDoc(store, id).doc)
    /\ UNCHANGED <<sniffVars, parseVars, clock, issued, scraped, svcVars, calls,
                   limiter, twin, allows, verdicts>>

GetAll ==
    /\ \E all \in GetAllAPIDocs(store) : got' = Got("all", <<>>, "", all)
    /\ UNCHANGED <<sniffVars, parseVars, clock, issued, scraped, svcVars, calls,
                   limiter, twin, allows, verdicts>>

NextStore == Save \/ Get \/ GetAll

SpecStore == InitStore /\ [][NextStore]_vars

\* C26: the store keeps its contract under any interleaving of operations:
\* a successful save makes the document the one a get of its identifier
\* returns, and only a save with the same identifier changes that; a get of
\* an identifier never saved returns a not-found error; a save of a document
\* with an empty identifier returns an error and changes nothing; a listing
\* returns exactly one document per stored identifier.
C26_StoreContract ==
    [][/\ (got'.op = "save" /\ got'.err = "") =>
             /\ got'.id # <<>>
             /\ DOMAIN store' = DOMAIN store \cup {got'.id}
             /\ store'[got'.id] = got'.docs[1]
             /\ \A id \in DOMAIN store \ {got'.id} : store'[id] = store[id]
       /\ (got'.op = "save" /\ got'.docs[1].ID = <<>>) =>
             got'.err # "" /\ store' = store
       /\ got'.op = "get" =>
             /\ store' = store
             /\ IF got'.id \in DOMAIN store
                THEN got'.err = "" /\ got'.docs = <<store[got'.id]>>
                ELSE got'.err = "notfound" /\ got'.docs = <<>>
       /\ got'.op = "all" =>
             /\ store' = store
             /\ got'.err = ""
             /\ Len(got'.docs) = Cardinality(DOMAIN store)
             /\ \A id \in DOMAIN store :
                   \E k \in 1..Len(got'.docs) : got'.docs[k] = store[id]]_vars

\* an identifier was saved twice and a get returned the second document,
\* another identifier being stored as well
C26_Witness ==
    /\ got.op = "get" /\ got.err = ""
    /\ got.docs = <<store[got.id]>>
    /\ got.docs[1].Title = Chars("B")
    /\ Cardinality(DOMAIN store) >= 2

-----------------------------------------------------------------------------
(* The index page *)

\* The index page is rendered for a store that holds the documents created
\* so far.
InitIndex ==
    /\ clock = 0
    /\ issued = <<>>
    /\ \E n \in 0..MaxStored : store = CreatedStore(n)
    /\ reply = NoReply
    /\ flights = NoFlights
    /\ IdleSniff
    /\ IdleParse
    /\ IdleScrape
    /\ IdleCore
    /\ IdleUI

\* the page is rendered once for a store
RenderIndex ==
    /\ got = NoGot
    /\ \E page \in handleIndex(store) : got' = page
    /\ UNCHANGED <<sniffVars, parseVars, clock, issued, scraped, svcVars, calls,
                   limiter, twin, allows, verdicts>>

NextIndex == RenderIndex

SpecIndex == InitIndex /\ [][NextIndex]_vars

\* the n documents of the store that were created last
MostRecent(n) ==
    {store[id] : id \in {id \in DOMAIN store :
        Cardinality({other \in DOMAIN store :
                        store[other].CreatedAt > store[id].CreatedAt}) < n}}

\* C27: the index page lists at most 5 documents, and when more than 5 are
\* stored they are the 5 most recently created ones.
C27_FiveMostRecent ==
    got.op = "index" =>
        /\ Len(got.docs) <= 5
        /\ Cardinality(DOMAIN store) > 5 =>
              {got.docs[k] : k \in 1..Len(got.docs)} = MostRecent(5)

-----------------------------------------------------------------------------
(* Claims about submissions and the store, under SpecService *)

\* the step is the save of the document of worker w
Saves(w) == ~flights[w].saved /\ flights'[w].saved

\* the document worker w holds has a source URL no stored document has
NewDocument(w) == \A id \in DOMAIN store : store[id].URL # flights[w].doc[1].URL

\* C28: every successful submission stays retrievable: the save of a document
\* different from the stored ones adds one document to the store and leaves
\* the documents of the earlier submissions retrievable under their
\* identifiers, so k such submissions leave k documents in the store; and a
\* get of the identifier a submission is answered with returns the document
\* of that submission.
C28_SubmissionsStayRetrievable ==
    [][\A w \in Workers :
          /\ (Saves(w) /\ NewDocument(w)) =>
                /\ Cardinality(DOMAIN store') = Cardinality(DOMAIN store) + 1
                /\ \A id \in DOMAIN store : GetAPIDoc(store', id).doc = <<store[id]>>
          /\ (Answers(w) /\ reply'.error = "") =>
                GetAPIDoc(store, reply'.doc[1].ID).doc = reply'.doc]_vars

\* C30: a submission that fails at any step (empty URL, rate-limit denial,
\* fetch error, parse error, save error) has not written the store, whatever
\* the other submissions in progress do, and a rate-limited submission of a
\* form of the UI has neither fetched nor saved.
C30_FailuresChangeNothing ==
    [][\A w \in Workers :
          Answers(w) =>
              /\ store' = store
              /\ reply'.error # "" => ~flights[w].saved
              /\ reply'.error = "rate" => ~flights[w].fetched /\ ~flights[w].saved]_vars

\* a form submitted for http://h/guide was allowed and is waiting for the
\* documentation server when a second one for that host is denied: the
\* denial is answered with nothing fetched and nothing stored
C30_Witness ==
    /\ reply.error = "rate"
    /\ reply.request.url = Chars("http://h/guide")
    /\ limiter = [d \in {<<"h">>} |-> <<0>>]
    /\ \E w \in Workers : flights[w].handler = "gin" /\ StepOf(flights[w]) = "fetch"
    /\ \A w \in Workers : ~flights[w].fetched
    /\ store = << >>

=============================================================================
